---- MODULE Spec2Model ----
(***************************************************************************)
(* slaist: the reconciliation loop of app/src/main.rs.                     *)
(*                                                                         *)
(* Text is modelled as a sequence of tokens.  A token is either a single   *)
(* character ("a", "b", " ", "\n") or one of the literal strings the code  *)
(* writes and matches as a whole ("- [ ]", "- [x]", "---",                 *)
(* "*(marked as finished)*", the headings, the placeholders).  The string  *)
(* operations of the code (lines, trim, starts_with, ends_with,            *)
(* trim_end_matches, join) are computed on these sequences.                *)
(*                                                                         *)
(* Option<T> is a sequence of length 0 (None) or 1 (Some).                 *)
(***************************************************************************)
EXTENDS Integers, Sequences, FiniteSets, TLC

\* ------------------------------------------------------------------ tokens
NL == "\n"
SP == " "
BoxOpen == "- [ ]"
BoxDone == "- [x]"
Marker == "*(marked as finished)*"
Delim == "---"
LegacyTodo == ":todo:"
LegacyDone == ":todo_done:"
HActive == "## Active Todos"
HCompleted == "## Completed Todos"
NoActive == "_No active todos found!_"
NoCompleted == "_No completed todos yet._"

None == <<>>
Some(x) == <<x>>
IsSome(o) == Len(o) = 1
Unwrap(o) == o[1]

\* ------------------------------------------------------- string operations
StartsWith(s, p) == Len(s) >= Len(p) /\ SubSeq(s, 1, Len(p)) = p
EndsWith(s, p) == Len(s) >= Len(p) /\ SubSeq(s, Len(s) - Len(p) + 1, Len(s)) = p

RECURSIVE TrimStart(_)
TrimStart(s) ==
    IF s # <<>> /\ Head(s) = SP THEN TrimStart(Tail(s)) ELSE s

RECURSIVE TrimEnd(_)
TrimEnd(s) ==
    IF s # <<>> /\ s[Len(s)] = SP THEN TrimEnd(SubSeq(s, 1, Len(s) - 1)) ELSE s

Trim(s) == TrimEnd(TrimStart(s))

\* str::trim_end_matches: removes the pattern from the end repeatedly.
RECURSIVE TrimEndMatches(_, _)
TrimEndMatches(s, p) ==
    IF EndsWith(s, p) THEN TrimEndMatches(SubSeq(s, 1, Len(s) - Len(p)), p) ELSE s

\* str::lines: split at "\n"; a final empty piece is not a line.
RECURSIVE LinesFrom(_, _, _, _)
LinesFrom(s, i, cur, acc) ==
    IF i > Len(s)
    THEN IF cur = <<>> THEN acc ELSE Append(acc, cur)
    ELSE IF s[i] = NL
         THEN LinesFrom(s, i + 1, <<>>, Append(acc, cur))
         ELSE LinesFrom(s, i + 1, Append(cur, s[i]), acc)

Lines(s) == LinesFrom(s, 1, <<>>, <<>>)

\* [&str]::join("\n")
RECURSIVE Join(_)
Join(ls) ==
    IF ls = <<>> THEN <<>>
    ELSE IF Len(ls) = 1 THEN ls[1]
    ELSE ls[1] \o <<NL>> \o Join(Tail(ls))

RECURSIVE Flatten(_)
Flatten(ls) == IF ls = <<>> THEN <<>> ELSE ls[1] \o Flatten(Tail(ls))

Range(f) == {f[i] : i \in DOMAIN f}

\* ------------------------------------------------------------ data types
\* todoist::Todo, reduced to the two fields main.rs reads.
Todo(c, k) == [content |-> c, checked |-> k]

\* ---------------------------------------------- parse_existing_markdown
\* One checkbox line (already trimmed) to its (text, was_completed) entry;
\* None for a line that is no entry.
\* A parser that leaves the annotation on the text.
StripMarkerKept(t) == t

StripMarker(t) ==
    IF EndsWith(t, <<Marker>>) THEN Trim(TrimEndMatches(t, <<Marker>>)) ELSE t

\* A parser that knows the two checkbox forms only.
ParseLineBoxesOnly(trimmed) ==
    IF StartsWith(trimmed, <<BoxOpen>>)
    THEN Some(<<Trim(Tail(trimmed)), FALSE>>)
    ELSE IF StartsWith(trimmed, <<BoxDone>>)
    THEN Some(<<StripMarker(Trim(Tail(trimmed))), TRUE>>)
    ELSE None

ParseLine(trimmed) ==
    IF StartsWith(trimmed, <<BoxOpen>>)
    THEN Some(<<Trim(Tail(trimmed)), FALSE>>)
    ELSE IF StartsWith(trimmed, <<BoxDone>>)
    THEN Some(<<StripMarker(Trim(Tail(trimmed))), TRUE>>)
    ELSE IF StartsWith(trimmed, <<LegacyTodo>>)
    THEN Some(<<Trim(Tail(trimmed)), FALSE>>)
    ELSE IF StartsWith(trimmed, <<LegacyDone>>)
    THEN Some(<<StripMarker(Trim(Tail(trimmed))), TRUE>>)
    ELSE None

\* The loop over the lines: the delimiter test comes first, on every line,
\* also on the lines after the first delimiter.
IsDelimiter(line, in_notes) == Trim(line) = <<Delim>>

RECURSIVE ParseFrom(_, _, _, _, _)
ParseFrom(ls, i, in_notes, todos, notes_lines) ==
    IF i > Len(ls)
    THEN [todos |-> todos,
          notes |-> IF notes_lines # <<>> THEN Some(Join(notes_lines)) ELSE None]
    ELSE IF IsDelimiter(ls[i], in_notes)
    THEN ParseFrom(ls, i + 1, TRUE, todos, notes_lines)
    ELSE IF in_notes
    THEN ParseFrom(ls, i + 1, in_notes, todos, Append(notes_lines, ls[i]))
    ELSE ParseFrom(ls, i + 1, in_notes, todos \o ParseLine(Trim(ls[i])), notes_lines)

parse_existing_markdown(content) == ParseFrom(Lines(content), 1, FALSE, <<>>, <<>>)

\* -------------------------------------------- generate_markdown_content
UncheckedLine(t) == <<BoxOpen, SP>> \o t \o <<NL>>
CheckedLine(t) == <<BoxDone, SP>> \o t \o <<NL>>
AnnotatedLine(t) == <<BoxDone, SP>> \o t \o <<SP, Marker, NL>>

IdPrefix == "<!-- slack_message_id: "
IdSuffix == " -->"
MetadataLine(id) == <<IdPrefix>> \o id \o <<IdSuffix>>

RECURSIVE SelectTodos(_, _)
SelectTodos(todos, k) ==
    IF todos = <<>> THEN <<>>
    ELSE (IF Head(todos).checked = k THEN <<Head(todos).content>> ELSE <<>>)
         \o SelectTodos(Tail(todos), k)

CurrentContents(todos) == {todos[i].content : i \in DOMAIN todos}

\* A loop whose first branch also tests in_current: the state of the fetch
\* wins over a completed line of the prior document.
ExistingBranchCurrentWins(was_completed, in_current, already_added) ==
    IF was_completed /\ ~in_current /\ ~already_added THEN "preserve"
    ELSE IF ~was_completed /\ ~in_current /\ ~already_added THEN "finished"
    ELSE "skip"

\* A loop whose second branch tests in_current where the code tests
\* !in_current.
ExistingBranchInverted(was_completed, in_current, already_added) ==
    IF was_completed /\ ~already_added THEN "preserve"
    ELSE IF ~was_completed /\ in_current /\ ~already_added THEN "finished"
    ELSE "skip"

\* The branch of the loop over existing_todos taken for one entry:
\* "preserve", "finished" or "skip".
ExistingBranch(was_completed, in_current, already_added) ==
    IF was_completed /\ ~already_added THEN "preserve"
    ELSE IF ~was_completed /\ ~in_current /\ ~already_added THEN "finished"
    ELSE "skip"

\* added_completed after the branch for one entry.
AddedAfter(added, text, branch) ==
    IF branch = "preserve" THEN added \cup {text} ELSE added

\* The lines the loop over existing_todos appends, in order.
RECURSIVE ExistingLines(_, _, _)
ExistingLines(existing, current, added) ==
    IF existing = <<>> THEN <<>>
    ELSE LET text == Head(existing)[1]
             branch == ExistingBranch(Head(existing)[2], text \in current,
                                      text \in added)
             line == IF branch = "preserve" THEN <<CheckedLine(text)>>
                     ELSE IF branch = "finished" THEN <<AnnotatedLine(text)>>
                     ELSE <<>>
         IN line \o ExistingLines(Tail(existing), current,
                                  AddedAfter(added, text, branch))

RECURSIVE MapLines(_, _)
MapLines(texts, k) ==
    IF texts = <<>> THEN <<>>
    ELSE <<IF k THEN CheckedLine(Head(texts)) ELSE UncheckedLine(Head(texts))>>
         \o MapLines(Tail(texts), k)

\* The part of the document written for preserved_notes.
NotesPart(preserved_notes) ==
    IF IsSome(preserved_notes)
    THEN <<Delim, NL>> \o Unwrap(preserved_notes)
         \o (IF ~EndsWith(Unwrap(preserved_notes), <<NL>>) THEN <<NL>> ELSE <<>>)
    ELSE <<>>

\* An active section that lists every fetched record, the completed ones too.
ActiveLinesUnfiltered(current_todos) ==
    MapLines(SelectTodos(current_todos, FALSE) \o SelectTodos(current_todos, TRUE), FALSE)

\* The lines of the active and of the completed section, placeholders left out.
ActiveLines(current_todos) == MapLines(SelectTodos(current_todos, FALSE), FALSE)

CompletedLines(current_todos, existing_todos) ==
    MapLines(SelectTodos(current_todos, TRUE), TRUE)
    \o ExistingLines(existing_todos, CurrentContents(current_todos),
                     Range(SelectTodos(current_todos, TRUE)))

\* A renderer that forgets the metadata line.
RenderWithoutId(current_todos, existing_todos, existing_message_id, preserved_notes) ==
    LET active == ActiveLines(current_todos)
        completed == CompletedLines(current_todos, existing_todos)
    IN <<HActive, NL, NL>>
       \o (IF active = <<>> THEN <<NoActive, NL, NL>> ELSE Flatten(active))
       \o <<NL, HCompleted, NL, NL>>
       \o Flatten(completed)
       \o (IF completed = <<>> THEN <<NoCompleted, NL, NL>> ELSE <<>>)
       \o NotesPart(preserved_notes)

generate_markdown_content(current_todos, existing_todos, existing_message_id, preserved_notes) ==
    LET active == ActiveLines(current_todos)
        completed == CompletedLines(current_todos, existing_todos)
    IN (IF IsSome(existing_message_id)
        THEN MetadataLine(Unwrap(existing_message_id)) \o <<NL>> ELSE <<>>)
       \o <<HActive, NL, NL>>
       \o (IF active = <<>> THEN <<NoActive, NL, NL>> ELSE Flatten(active))
       \o <<NL, HCompleted, NL, NL>>
       \o Flatten(completed)
       \o (IF completed = <<>> THEN <<NoCompleted, NL, NL>> ELSE <<>>)
       \o NotesPart(preserved_notes)

\* ------------------------------------------------ slack message id helpers
IsMetadataLine(line) == StartsWith(line, <<IdPrefix>>) /\ EndsWith(line, <<IdSuffix>>)

RECURSIVE TrimStartMatches(_, _)
TrimStartMatches(s, p) ==
    IF StartsWith(s, p) THEN TrimStartMatches(SubSeq(s, Len(p) + 1, Len(s)), p) ELSE s

RECURSIVE FirstMetadata(_, _)
FirstMetadata(ls, i) ==
    IF i > Len(ls) THEN 0
    ELSE IF IsMetadataLine(ls[i]) THEN i ELSE FirstMetadata(ls, i + 1)

extract_slack_message_id(content) ==
    LET ls == Lines(content)
        i == FirstMetadata(ls, 1)
    IN IF i = 0 THEN None
       ELSE Some(TrimEndMatches(TrimStartMatches(ls[i], <<IdPrefix>>), <<IdSuffix>>))

\* An inject that always puts a new metadata line in front.
AddAlwaysPrepends(content, message_id) ==
    MetadataLine(message_id) \o <<NL>> \o content

\* An inject that always puts a new metadata line at the end.
AddAtEnd(content, message_id) ==
    content \o <<NL>> \o MetadataLine(message_id)

add_slack_message_id(content, message_id) ==
    LET ls == Lines(content)
        i == FirstMetadata(ls, 1)
    IN IF i # 0
       THEN Join([ls EXCEPT ![i] = MetadataLine(message_id)])
       ELSE MetadataLine(message_id) \o <<NL>> \o content

RECURSIVE SelectSeq2(_, _)
SelectSeq2(ls, keepMeta) ==
    IF ls = <<>> THEN <<>>
    ELSE (IF keepMeta \/ ~IsMetadataLine(Head(ls)) THEN <<Head(ls)>> ELSE <<>>)
         \o SelectSeq2(Tail(ls), keepMeta)

filter_slack_metadata(content) == Join(SelectSeq2(Lines(content), FALSE))

\* str::split('.')
RECURSIVE SplitFrom(_, _, _, _)
SplitFrom(s, i, cur, acc) ==
    IF i > Len(s) THEN Append(acc, cur)
    ELSE IF s[i] = "."
         THEN SplitFrom(s, i + 1, <<>>, Append(acc, cur))
         ELSE SplitFrom(s, i + 1, Append(cur, s[i]), acc)

Digits == {"0", "1", "2", "3", "4", "5", "6", "7", "8", "9"}

DigitVal(c) ==
    CASE c = "0" -> 0 [] c = "1" -> 1 [] c = "2" -> 2 [] c = "3" -> 3 [] c = "4" -> 4
      [] c = "5" -> 5 [] c = "6" -> 6 [] c = "7" -> 7 [] c = "8" -> 8 [] c = "9" -> 9

\* u64::MAX, 2^64 - 1, in decimal.
U64MaxDigits ==
    <<"1", "8", "4", "4", "6", "7", "4", "4", "0", "7",
      "3", "7", "0", "9", "5", "5", "1", "6", "1", "5">>

RECURSIVE StripZeros(_)
StripZeros(d) == IF d # <<>> /\ Head(d) = "0" THEN StripZeros(Tail(d)) ELSE d

\* a <= b for two digit strings of the same length.
RECURSIVE LeqDigits(_, _)
LeqDigits(a, b) ==
    IF a = <<>> THEN TRUE
    ELSE IF DigitVal(Head(a)) # DigitVal(Head(b))
         THEN DigitVal(Head(a)) < DigitVal(Head(b))
         ELSE LeqDigits(Tail(a), Tail(b))

\* The value of a digit string fits 64 bits.
FitsU64(d) ==
    LET z == StripZeros(d)
    IN \/ Len(z) < Len(U64MaxDigits)
       \/ Len(z) = Len(U64MaxDigits) /\ LeqDigits(z, U64MaxDigits)

\* A parse that keeps no width.
ParsesUnbounded(s) ==
    LET d == IF s # <<>> /\ Head(s) = "+" THEN Tail(s) ELSE s
    IN d # <<>> /\ \A i \in DOMAIN d : d[i] \in Digits

\* str::parse::<u64>().is_ok(): digits, optionally after one "+", of a value
\* below 2^64.
ParsesU64(s) ==
    LET d == IF s # <<>> /\ Head(s) = "+" THEN Tail(s) ELSE s
    IN d # <<>> /\ (\A i \in DOMAIN d : d[i] \in Digits) /\ FitsU64(d)

\* A validation that accepts every id.
ValidateAnything(message_id) == TRUE

validate_message_id(message_id) ==
    LET parts == SplitFrom(message_id, 1, <<>>, <<>>)
    IN IF Len(parts) # 2 THEN FALSE
       ELSE ParsesU64(parts[1]) /\ ParsesU64(parts[2])

\* ------------------------------------------- what a document shows a reader
\* The lines before the first delimiter line: the two sections.
RECURSIVE FirstDelimiter(_, _)
FirstDelimiter(ls, i) ==
    IF i > Len(ls) THEN 0
    ELSE IF Trim(ls[i]) = <<Delim>> THEN i ELSE FirstDelimiter(ls, i + 1)

SectionLines(content) ==
    LET ls == Lines(content)
        i == FirstDelimiter(ls, 1)
    IN IF i = 0 THEN ls ELSE SubSeq(ls, 1, i - 1)

\* The text after the first delimiter line, byte for byte; None without one.
TailOf(content) ==
    LET ls == Lines(content)
        i == FirstDelimiter(ls, 1)
    IN IF i = 0 THEN None
       ELSE Some(Join(SubSeq(ls, i + 1, Len(ls)))
                 \o (IF i < Len(ls) /\ EndsWith(content, <<NL>>) THEN <<NL>> ELSE <<>>))

\* The tail of a file that may not exist; empty when there is none.
TailText(file) ==
    IF IsSome(file) /\ IsSome(TailOf(Unwrap(file))) THEN Unwrap(TailOf(Unwrap(file)))
    ELSE <<>>

RECURSIVE NormNL(_)
NormNL(s) == IF EndsWith(s, <<NL>>) THEN NormNL(SubSeq(s, 1, Len(s) - 1)) ELSE s

SameUpToFinalNL(x, y) == x = y \/ x = y \o <<NL>> \/ y = x \o <<NL>>

\* The line a text is written on, without its newline.
Unchecked(t) == <<BoxOpen, SP>> \o t
PlainChecked(t) == <<BoxDone, SP>> \o t
Annotated(t) == <<BoxDone, SP>> \o t \o <<SP, Marker>>

CountLines(content, line) ==
    LET ls == SectionLines(content)
    IN Cardinality({i \in DOMAIN ls : ls[i] = line})

OnUnchecked(content, t) == CountLines(content, Unchecked(t)) > 0
OnPlainChecked(content, t) == CountLines(content, PlainChecked(t)) > 0
OnAnnotated(content, t) == CountLines(content, Annotated(t)) > 0
OnChecked(content, t) == OnPlainChecked(content, t) \/ OnAnnotated(content, t)

\* The texts a reader finds on unchecked, checked and annotated lines.
TextAfterBox(line) == SubSeq(line, 3, Len(line))

UncheckedTexts(content) ==
    {TextAfterBox(l) : l \in {x \in Range(SectionLines(content)) :
                                StartsWith(x, <<BoxOpen, SP>>)}}

AnnotatedTexts(content) ==
    {SubSeq(l, 3, Len(l) - 2) :
        l \in {x \in Range(SectionLines(content)) :
                 StartsWith(x, <<BoxDone, SP>>) /\ EndsWith(x, <<SP, Marker>>)
                 /\ Len(x) >= 4}}

CheckedTexts(content) ==
    {TextAfterBox(l) : l \in {x \in Range(SectionLines(content)) :
                                StartsWith(x, <<BoxDone, SP>>)}}
    \cup AnnotatedTexts(content)

\* A text the parser reads back as it is: no blank at either end, no marker
\* at the end.
IsPlain(t) == Trim(t) = t /\ ~EndsWith(t, <<Marker>>)

\* ---------------------------------------------------------------- bounds
MaxFetch == 2
MaxCycles == 3
MaxHumanEdits == 1
MaxHumanFetch == 1
MaxPriorLines == 2
MaxPriorLines2 == 1
MaxMergeCycles == 2
MaxTailLines == 3
\* Tasks of the source in the liveness specification.
MaxLiveFeed == 1

\* Entry texts the task source returns: two plain texts, one that ends with
\* the annotation marker and one with a leading blank.
Texts == {<<"a">>, <<"b">>, <<"a", SP, Marker>>, <<SP, "a">>}

\* The texts of the loop's fetches.
LoopTexts == {<<"a">>, <<"b">>}

SeqsUpTo(S, n) == UNION {[1..k -> S] : k \in 0..n}

Todos(T) == {Todo(c, k) : c \in T, k \in BOOLEAN}

\* Lines a person appends after the delimiter.
NoteLines == {<<"n">>, <<>>, <<Delim>>, <<BoxOpen, SP, "a">>}

\* Message timestamps the chat server hands out.
ServerIds == {<<"1", ".", "1">>, <<"2", ".", "2">>}

\* ------------------------------------------------------------- the state
VARIABLES
    today,                \* the calendar date (Utc::now)
    files,                \* date -> Option<content> of <date>.md
    pc,                   \* position of the main loop
    iteration,            \* main: iteration
    date_str,             \* main: date_str, file_path of this cycle
    existing_todos,       \* main: existing_todos
    existing_message_id,  \* main: existing_message_id
    preserved_notes,      \* main: preserved_notes
    all_current_todos,    \* main: all_current_todos
    markdown_content,     \* main: markdown_content
    ps_date,              \* post_slack: date_str, file_path
    ps_content,           \* post_slack: markdown_content
    ps_message,           \* post_slack: message
    ps_message_id,        \* post_slack: existing_message_id
    calls,                \* the chat calls of this cycle, in order
    human_edits,          \* number of edits a person has made
    file_at_read,         \* history: the day's file when this cycle began
    edits_at_read,        \* history: human_edits when this cycle began
    faults,               \* history: the kinds of step that have failed so far
    feed,                 \* the task list of a source that never changes
    fetch_failed,         \* history: get_all_todos returned Err in this cycle
    read_failed,          \* history: main's read_to_string returned Err in this cycle
    m_docs,               \* merge pipeline: the documents, oldest first
    m_fetches,            \* merge pipeline: the fetches, oldest first
    n_in,                 \* notes pipeline: the tail a person wrote
    n_stage,              \* notes pipeline: position
    n_notes,              \* notes pipeline: Option<String> notes
    n_out,                \* notes pipeline: the rendered document
    sp_calls,             \* slack_post binary: its chat calls, in order
    k_text,               \* id helpers: the content argument
    k_id,                 \* id helpers: the message_id argument
    k_stage,              \* id helpers: position
    k_found,              \* id helpers: extract_slack_message_id(content)
    k_out,                \* id helpers: add_slack_message_id(content, message_id)
    k_got,                \* id helpers: extract_slack_message_id of that result
    k_valid,              \* id helpers: validate_message_id(message_id)
    config_file,          \* what stands at ~/slaist/config.toml
    config,               \* main: config, None before Config::load returns Ok
    p_in,                 \* parser alone: the content argument
    p_stage,              \* parser alone: position
    p_out,                \* parser alone: what parse_existing_markdown returned
    s_resp,               \* slack crate alone: what the HTTP exchange gave
    s_stage,              \* slack crate alone: position
    s_post,               \* slack crate alone: what post_message returned
    s_update              \* slack crate alone: what update_message returned

loop_vars == <<today, files, pc, iteration, date_str, existing_todos,
               existing_message_id, preserved_notes, all_current_todos,
               markdown_content, ps_date, ps_content, ps_message, ps_message_id,
               calls, human_edits, file_at_read, edits_at_read, faults, feed, fetch_failed, read_failed>>
hist_vars == <<file_at_read, edits_at_read>>
merge_vars == <<m_docs, m_fetches>>
notes_vars == <<n_in, n_stage, n_notes, n_out>>
post_vars == <<sp_calls>>
ids_vars == <<k_text, k_id, k_stage, k_found, k_out, k_got, k_valid>>
start_vars == <<config_file, config>>
parse_vars == <<p_in, p_stage, p_out>>
slack_vars == <<s_resp, s_stage, s_post, s_update>>
vars == <<loop_vars, merge_vars, notes_vars, post_vars, ids_vars, start_vars, parse_vars, slack_vars>>

Dates == {1, 2}

\* Lines 328, 342-347: nothing of a cycle has run.
LoopLocals ==
    /\ today = 1
    /\ iteration = 1
    /\ date_str = 1
    /\ existing_todos = <<>>
    /\ existing_message_id = None
    /\ preserved_notes = None
    /\ all_current_todos = <<>>
    /\ markdown_content = <<>>
    /\ ps_date = 1
    /\ ps_content = <<>>
    /\ ps_message = <<>>
    /\ ps_message_id = None
    /\ calls = <<>>
    /\ human_edits = 0
    /\ file_at_read = None
    /\ edits_at_read = 0
    /\ faults = {}
    /\ fetch_failed = FALSE
    /\ read_failed = FALSE

\* The loop is about to run its first cycle.
LoopIdle == LoopLocals /\ pc = "read"

\* struct Config, lines 12-19; a String is "" or not, an Option<String> is
\* None or Some of one.
ConfigOf(todoist, slack, channel, filter, directory) ==
    [todoist_api_token |-> todoist, slack_bot_token |-> slack,
     slack_channel |-> channel, filter |-> filter, todos_directory |-> directory]

\* Config::default(), lines 21-37.
DefaultConfig ==
    ConfigOf("", "", Some("#general"), Some("(overdue | today) & #Work"), Some("~/slaist"))

\* A config.toml a person has filled in.
FilledConfig ==
    ConfigOf("todoist-token", "xoxb-token", Some("#general"),
             Some("(overdue | today) & #Work"), Some("~/slaist"))

\* What can stand at the path of config.toml.
Missing == [kind |-> "missing", cfg |-> DefaultConfig]
Unreadable == [kind |-> "unreadable", cfg |-> DefaultConfig]
Unparsable == [kind |-> "unparsable", cfg |-> DefaultConfig]
Parsed(cfg) == [kind |-> "parsed", cfg |-> cfg]

\* main has loaded a filled-in config.
StartIdle == config_file = Parsed(FilledConfig) /\ config = Some(FilledConfig)

\* No file of any date exists.
NoFiles == files = [d \in Dates |-> None]

FeedIdle == feed = <<>>

\* The slack_post binary has not run.
PostIdle == sp_calls = <<>>

\* The parser has not been called on its own.
ParseIdle == p_in = <<>> /\ p_stage = "idle" /\ p_out = [todos |-> <<>>, notes |-> None]
NoResult == [ok |-> FALSE, val |-> "none"]
NoResponse == [transport |-> FALSE, ok |-> FALSE, error |-> <<>>, ts |-> <<>>]
SlackIdle == s_resp = NoResponse /\ s_stage = "idle" /\ s_post = NoResult /\ s_update = NoResult

\* No id helper has been called.
IdsIdle ==
    /\ k_text = <<>> /\ k_id = <<>> /\ k_stage = "idle"
    /\ k_found = None /\ k_out = <<>> /\ k_got = None /\ k_valid = FALSE

MergeIdle == m_docs = <<>> /\ m_fetches = <<>>

NotesIdle == n_in = <<>> /\ n_stage = "idle" /\ n_notes = None /\ n_out = <<>>

\* A read that takes the file of the first date whatever the day is.
ReadPriorOfFirstDate(read_ok) ==
    /\ pc = "read"
    /\ iteration <= MaxCycles
    /\ (~read_ok => IsSome(files[1]))
    /\ date_str' = today
    /\ IF IsSome(files[1]) /\ read_ok
       THEN LET content == Unwrap(files[1])
                parsed == parse_existing_markdown(content)
            IN /\ existing_todos' = parsed.todos
               /\ existing_message_id' = extract_slack_message_id(content)
               /\ preserved_notes' = parsed.notes
       ELSE /\ existing_todos' = <<>>
            /\ existing_message_id' = None
            /\ preserved_notes' = None
    /\ pc' = "fetch"
    /\ calls' = <<>>
    /\ file_at_read' = files[today]
    /\ edits_at_read' = human_edits
    /\ faults' = faults \cup (IF read_ok THEN {} ELSE {"read"})
    /\ read_failed' = ~read_ok
    /\ UNCHANGED <<today, files, iteration, all_current_todos, markdown_content,
                   ps_date, ps_content, ps_message, ps_message_id, human_edits,
                   feed, fetch_failed>>
    /\ UNCHANGED <<merge_vars, notes_vars, post_vars, ids_vars, start_vars, parse_vars, slack_vars>>

\* A read that hands out the file's entries, id and notes even when it fails.
ReadPriorKeepsState(read_ok) ==
    /\ pc = "read"
    /\ iteration <= MaxCycles
    /\ (~read_ok => IsSome(files[today]))
    /\ date_str' = today
    /\ IF IsSome(files[today])
       THEN LET content == Unwrap(files[today])
                parsed == parse_existing_markdown(content)
            IN /\ existing_todos' = parsed.todos
               /\ existing_message_id' = extract_slack_message_id(content)
               /\ preserved_notes' = parsed.notes
       ELSE /\ existing_todos' = <<>>
            /\ existing_message_id' = None
            /\ preserved_notes' = None
    /\ pc' = "fetch"
    /\ calls' = <<>>
    /\ file_at_read' = files[today]
    /\ edits_at_read' = human_edits
    /\ faults' = faults \cup (IF read_ok THEN {} ELSE {"read"})
    /\ read_failed' = ~read_ok
    /\ UNCHANGED <<today, files, iteration, all_current_todos, markdown_content,
                   ps_date, ps_content, ps_message, ps_message_id, human_edits,
                   feed, fetch_failed>>
    /\ UNCHANGED <<merge_vars, notes_vars, post_vars, ids_vars, start_vars, parse_vars, slack_vars>>

\* A cycle that calls post_slack right after the read, before the fetch.
ReadPriorThenPublish(read_ok) ==
    /\ pc = "read"
    /\ iteration <= MaxCycles
    /\ (~read_ok => IsSome(files[today]))
    /\ date_str' = today
    /\ IF IsSome(files[today]) /\ read_ok
       THEN LET content == Unwrap(files[today])
                parsed == parse_existing_markdown(content)
            IN /\ existing_todos' = parsed.todos
               /\ existing_message_id' = extract_slack_message_id(content)
               /\ preserved_notes' = parsed.notes
       ELSE /\ existing_todos' = <<>>
            /\ existing_message_id' = None
            /\ preserved_notes' = None
    /\ pc' = "ps_read"
    /\ calls' = <<>>
    /\ file_at_read' = files[today]
    /\ edits_at_read' = human_edits
    /\ faults' = faults \cup (IF read_ok THEN {} ELSE {"read"})
    /\ read_failed' = ~read_ok
    /\ UNCHANGED <<today, files, iteration, all_current_todos, markdown_content,
                   ps_date, ps_content, ps_message, ps_message_id, human_edits,
                   feed, fetch_failed>>
    /\ UNCHANGED <<merge_vars, notes_vars, post_vars, ids_vars, start_vars, parse_vars, slack_vars>>

\* ------------------------------------------------------------ main: loop
\* Lines 342-363: the date of the cycle, and the read of the day's file.
\* read_ok = FALSE is fs::read_to_string returning Err.
ReadPrior(read_ok) ==
    /\ pc = "read"
    /\ iteration <= MaxCycles
    /\ (~read_ok => IsSome(files[today]))
    /\ date_str' = today
    /\ IF IsSome(files[today]) /\ read_ok
       THEN LET content == Unwrap(files[today])
                parsed == parse_existing_markdown(content)
            IN /\ existing_todos' = parsed.todos
               /\ existing_message_id' = extract_slack_message_id(content)
               /\ preserved_notes' = parsed.notes
       ELSE /\ existing_todos' = <<>>
            /\ existing_message_id' = None
            /\ preserved_notes' = None
    /\ pc' = "fetch"
    /\ calls' = <<>>
    /\ file_at_read' = files[today]
    /\ edits_at_read' = human_edits
    /\ faults' = faults \cup (IF read_ok THEN {} ELSE {"read"})
    /\ read_failed' = ~read_ok
    /\ UNCHANGED <<today, files, iteration, all_current_todos, markdown_content,
                   ps_date, ps_content, ps_message, ps_message_id, human_edits,
                   feed, fetch_failed>>
    /\ UNCHANGED <<merge_vars, notes_vars, post_vars, ids_vars, start_vars, parse_vars, slack_vars>>

\* A fetch whose Err leaves main, as `?` would.
FetchAborts(result) ==
    /\ pc = "fetch"
    /\ all_current_todos' = (IF result.ok THEN result.todos ELSE <<>>)
    /\ fetch_failed' = ~result.ok
    /\ pc' = (IF result.ok THEN "write" ELSE "exited")
    /\ UNCHANGED <<today, files, iteration, date_str, existing_todos,
                   existing_message_id, preserved_notes, markdown_content,
                   ps_date, ps_content, ps_message, ps_message_id, calls,
                   human_edits, faults, feed, read_failed>>
    /\ UNCHANGED <<hist_vars, merge_vars, notes_vars, post_vars, ids_vars, start_vars, parse_vars, slack_vars>>

\* Lines 365-384: client.get_all_todos(); an Err is replaced by Vec::new().
Fetch(result) ==
    /\ pc = "fetch"
    /\ all_current_todos' = (IF result.ok THEN result.todos ELSE <<>>)
    /\ fetch_failed' = ~result.ok
    /\ pc' = "write"
    /\ UNCHANGED <<today, files, iteration, date_str, existing_todos,
                   existing_message_id, preserved_notes, markdown_content,
                   ps_date, ps_content, ps_message, ps_message_id, calls,
                   human_edits, faults, feed, read_failed>>
    /\ UNCHANGED <<hist_vars, merge_vars, notes_vars, post_vars, ids_vars, start_vars, parse_vars, slack_vars>>

\* The file after File::create + write_all (or fs::write) of text: "ok",
\* "create_err" (nothing touched) or "write_err" (created or truncated, the
\* text not written).
WriteOutcome(old, text, io) ==
    IF io = "ok" THEN Some(text)
    ELSE IF io = "create_err" THEN old
    ELSE Some(<<>>)

IoOutcomes == {"ok", "create_err", "write_err"}

\* Lines 404-445: render and write the file of this cycle.
WriteFile(io) ==
    /\ pc = "write"
    /\ LET text == generate_markdown_content(all_current_todos, existing_todos,
                                             existing_message_id, preserved_notes)
       IN /\ markdown_content' = text
          /\ files' = [files EXCEPT ![date_str] = WriteOutcome(@, text, io)]
    /\ pc' = "ps_read"
    /\ faults' = faults \cup (IF io = "ok" THEN {} ELSE {"write"})
    /\ UNCHANGED <<today, iteration, date_str, existing_todos, existing_message_id,
                   preserved_notes, all_current_todos, ps_date, ps_content,
                   ps_message, ps_message_id, calls, human_edits, feed, fetch_failed, read_failed>>
    /\ UNCHANGED <<hist_vars, merge_vars, notes_vars, post_vars, ids_vars, start_vars, parse_vars, slack_vars>>

\* ------------------------------------------------------------ slack crate
\* What the HTTP exchange gives: no decodable answer at all (transport), or
\* a SlackApiResponse {ok, error, ts}.
Responses ==
    {[transport |-> FALSE, ok |-> FALSE, error |-> None, ts |-> None],
     [transport |-> TRUE, ok |-> FALSE, error |-> Some("message_not_found"), ts |-> None],
     [transport |-> TRUE, ok |-> TRUE, error |-> None, ts |-> None]}
    \cup {[transport |-> TRUE, ok |-> TRUE, error |-> None, ts |-> Some(id)] :
            id \in ServerIds}

Unknown == <<"unknown">>

\* A post_message that hands out the ts of any answer that has one, without
\* looking at ok.
PostIgnoresOk(resp) ==
    IF ~resp.transport THEN [ok |-> FALSE, val |-> "HttpError"]
    ELSE IF IsSome(resp.ts) THEN [ok |-> TRUE, val |-> Unwrap(resp.ts)]
    ELSE IF ~resp.ok THEN [ok |-> FALSE, val |-> "ApiError"]
    ELSE [ok |-> TRUE, val |-> Unknown]

\* SlackClient::post_message: Result<String, SlackError>
post_message(resp) ==
    IF ~resp.transport THEN [ok |-> FALSE, val |-> "HttpError"]
    ELSE IF ~resp.ok THEN [ok |-> FALSE, val |-> "ApiError"]
    ELSE [ok |-> TRUE, val |-> IF IsSome(resp.ts) THEN Unwrap(resp.ts) ELSE Unknown]

\* SlackClient::update_message: Result<(), SlackError>
update_message(resp) ==
    IF ~resp.transport THEN [ok |-> FALSE, val |-> "HttpError"]
    ELSE IF ~resp.ok THEN [ok |-> FALSE, val |-> "ApiError"]
    ELSE [ok |-> TRUE, val |-> "unit"]

\* ------------------------------------------------------------ post_slack
DateHeader(d) == IF d = 1 THEN "*Daily Todos - 1*" ELSE "*Daily Todos - 2*"

\* str::trim().is_empty()
IsBlank(content) == \A i \in DOMAIN content : content[i] \in {SP, NL}

\* Line 542: the message built from the file's text.
Message(d, content) == <<DateHeader(d), NL, NL>> \o filter_slack_metadata(content)

\* Lines 463-547: everything before the first chat call. The function returns
\* early when the file is missing, unreadable or blank.
PostSlackRead(read_ok) ==
    /\ pc = "ps_read"
    /\ (~read_ok => IsSome(files[today]))
    /\ ps_date' = today
    /\ IF IsSome(files[today]) /\ read_ok /\ ~IsBlank(Unwrap(files[today]))
       THEN LET content == Unwrap(files[today])
                id == extract_slack_message_id(content)
            IN /\ ps_content' = content
               /\ ps_message_id' = id
               /\ ps_message' = Message(today, content)
               /\ pc' = IF IsSome(id) /\ validate_message_id(Unwrap(id))
                        THEN "ps_update" ELSE "ps_post"
       ELSE /\ pc' = "sleep"
            /\ UNCHANGED <<ps_content, ps_message_id, ps_message>>
    /\ faults' = faults \cup (IF read_ok THEN {} ELSE {"read"})
    /\ UNCHANGED <<today, files, iteration, date_str, existing_todos,
                   existing_message_id, preserved_notes, all_current_todos,
                   markdown_content, calls, human_edits, feed, fetch_failed, read_failed>>
    /\ UNCHANGED <<hist_vars, merge_vars, notes_vars, post_vars, ids_vars, start_vars, parse_vars, slack_vars>>

\* Lines 551-584: update_message and its result.
PostSlackUpdate(resp) ==
    /\ pc = "ps_update"
    /\ LET r == update_message(resp)
       IN /\ calls' = Append(calls, [op |-> "update", ts |-> ps_message_id,
                                     body |-> ps_message, ok |-> r.ok, id |-> None])
          /\ pc' = IF r.ok THEN "sleep" ELSE "ps_post"
          /\ faults' = faults \cup (IF r.ok THEN {} ELSE {"chat"})
    /\ UNCHANGED <<today, files, iteration, date_str, existing_todos,
                   existing_message_id, preserved_notes, all_current_todos,
                   markdown_content, ps_date, ps_content, ps_message,
                   ps_message_id, human_edits, feed, fetch_failed, read_failed>>
    /\ UNCHANGED <<hist_vars, merge_vars, notes_vars, post_vars, ids_vars, start_vars, parse_vars, slack_vars>>

\* Lines 585-606, 610-675: post_message and, on Ok, the write of the new id
\* into the file.
PostSlackPost(resp, io) ==
    /\ pc = "ps_post"
    /\ LET r == post_message(resp)
       IN /\ (~r.ok => io = "ok")
          /\ calls' = Append(calls, [op |-> "post", ts |-> None, body |-> ps_message,
                                     ok |-> r.ok,
                                     id |-> IF r.ok THEN Some(r.val) ELSE None])
          /\ files' = IF r.ok
                      THEN [files EXCEPT ![ps_date] =
                              WriteOutcome(@, add_slack_message_id(ps_content, r.val), io)]
                      ELSE files
          /\ faults' = faults \cup (IF r.ok THEN {} ELSE {"chat"})
                               \cup (IF r.ok /\ r.val = Unknown THEN {"no_ts"} ELSE {})
                               \cup (IF io = "ok" THEN {} ELSE {"write"})
    /\ pc' = "sleep"
    /\ UNCHANGED <<today, iteration, date_str, existing_todos, existing_message_id,
                   preserved_notes, all_current_todos, markdown_content, ps_date,
                   ps_content, ps_message, ps_message_id, human_edits, feed, fetch_failed, read_failed>>
    /\ UNCHANGED <<hist_vars, merge_vars, notes_vars, post_vars, ids_vars, start_vars, parse_vars, slack_vars>>

\* Lines 449-455: the delay, then the next iteration; the locals of the
\* iteration go out of scope.
Sleep ==
    /\ pc = "sleep"
    /\ iteration' = iteration + 1
    /\ pc' = "read"
    /\ existing_todos' = <<>>
    /\ existing_message_id' = None
    /\ preserved_notes' = None
    /\ all_current_todos' = <<>>
    /\ markdown_content' = <<>>
    /\ ps_content' = <<>>
    /\ ps_message' = <<>>
    /\ ps_message_id' = None
    /\ file_at_read' = None
    /\ edits_at_read' = 0
    /\ fetch_failed' = FALSE
    /\ read_failed' = FALSE
    /\ UNCHANGED <<today, files, date_str, ps_date, calls, human_edits, faults, feed>>
    /\ UNCHANGED <<merge_vars, notes_vars, post_vars, ids_vars, start_vars, parse_vars, slack_vars>>

\* ------------------------------------------------------------ the person
\* A person appends one line to the notes of the day's file, adding the
\* delimiter when the file has none.
HasDelimiter(content) ==
    \E i \in DOMAIN Lines(content) : Trim(Lines(content)[i]) = <<Delim>>

AppendNote(content, line) ==
    LET base == IF content = <<>> \/ EndsWith(content, <<NL>>)
                THEN content ELSE content \o <<NL>>
    IN (IF HasDelimiter(content) THEN base ELSE base \o <<Delim, NL>>)
       \o line \o <<NL>>

HumanAppend(line) ==
    /\ human_edits < MaxHumanEdits
    /\ IsSome(files[today])
    /\ files' = [files EXCEPT ![today] = Some(AppendNote(Unwrap(@), line))]
    /\ human_edits' = human_edits + 1
    /\ UNCHANGED <<today, pc, iteration, date_str, existing_todos,
                   existing_message_id, preserved_notes, all_current_todos,
                   markdown_content, ps_date, ps_content, ps_message,
                   ps_message_id, calls, faults, feed, fetch_failed, read_failed>>
    /\ UNCHANGED <<hist_vars, merge_vars, notes_vars, post_vars, ids_vars, start_vars, parse_vars, slack_vars>>

\* ------------------------------------------------------ the loop's spec
FetchResults(T, n) ==
    {[ok |-> FALSE, todos |-> <<>>]}
    \cup {[ok |-> TRUE, todos |-> t] : t \in SeqsUpTo(Todos(T), n)}

\* A fetch that has every text on one record only.
DistinctTexts(todos) ==
    \A i, j \in DOMAIN todos : todos[i].content = todos[j].content => i = j

Init == LoopIdle /\ StartIdle /\ PostIdle /\ ParseIdle /\ SlackIdle /\ IdsIdle /\ NoFiles /\ FeedIdle /\ MergeIdle /\ NotesIdle

\* The loop alone: nobody else touches the files, and no two records of a
\* fetch have the same text (the merge specifications below take those up).
Next ==
    \/ \E result \in {r \in FetchResults(LoopTexts, MaxFetch) : DistinctTexts(r.todos)} :
          Fetch(result)
    \/ \E read_ok \in BOOLEAN : ReadPrior(read_ok)
    \/ \E io \in IoOutcomes : WriteFile(io)
    \/ \E read_ok \in BOOLEAN : PostSlackRead(read_ok)
    \/ \E resp \in Responses : PostSlackUpdate(resp)
    \/ \E resp \in Responses, io \in IoOutcomes : PostSlackPost(resp, io)
    \/ Sleep

Spec == Init /\ [][Next]_vars

\* The loop and a person who edits the notes of the day's file at any moment.
\* The fetches are kept to one text and one record.
NextHuman ==
    \/ \E read_ok \in BOOLEAN : ReadPrior(read_ok)
    \/ \E result \in FetchResults({<<"a">>}, MaxHumanFetch) : Fetch(result)
    \/ \E io \in IoOutcomes : WriteFile(io)
    \/ \E read_ok \in BOOLEAN : PostSlackRead(read_ok)
    \/ \E resp \in Responses : PostSlackUpdate(resp)
    \/ \E resp \in Responses, io \in IoOutcomes : PostSlackPost(resp, io)
    \/ Sleep
    \/ \E line \in NoteLines : HumanAppend(line)

SpecHuman == Init /\ [][NextHuman]_vars

\* The loop against a task source whose list never changes, started on a day
\* whose file is missing or was left by earlier cycles and a person's edits.
Feeds == {t \in SeqsUpTo(Todos(LoopTexts), MaxFetch) : DistinctTexts(t)}

StartDocs ==
    {UncheckedLine(<<"a">>),
     CheckedLine(<<"b">>),
     UncheckedLine(<<"a">>) \o <<Delim, NL, "n", NL, NL, NL, NL>>}

InitSteady ==
    /\ LoopIdle /\ StartIdle /\ PostIdle /\ ParseIdle /\ SlackIdle /\ IdsIdle /\ MergeIdle /\ NotesIdle
    /\ feed \in Feeds
    /\ files \in {[d \in Dates |-> IF d = 1 THEN f ELSE None] :
                    f \in {None} \cup {Some(doc) : doc \in StartDocs}}

NextSteady ==
    \/ \E read_ok \in BOOLEAN : ReadPrior(read_ok)
    \/ Fetch([ok |-> TRUE, todos |-> feed])
    \/ \E io \in IoOutcomes : WriteFile(io)
    \/ \E read_ok \in BOOLEAN : PostSlackRead(read_ok)
    \/ \E resp \in Responses : PostSlackUpdate(resp)
    \/ \E resp \in Responses, io \in IoOutcomes : PostSlackPost(resp, io)
    \/ Sleep

SpecSteady == InitSteady /\ [][NextSteady]_vars

\* The loop with every failure it can meet, the fetch returning the source's
\* list or an Err. Each step of the loop returns, so the loop keeps taking
\* steps: weak fairness of the loop's next step.
NextFail ==
    \/ \E read_ok \in BOOLEAN : ReadPrior(read_ok)
    \/ \E ok \in BOOLEAN : Fetch([ok |-> ok, todos |-> feed])
    \/ \E io \in IoOutcomes : WriteFile(io)
    \/ \E read_ok \in BOOLEAN : PostSlackRead(read_ok)
    \/ \E resp \in Responses : PostSlackUpdate(resp)
    \/ \E resp \in Responses, io \in IoOutcomes : PostSlackPost(resp, io)
    \/ Sleep

\* The day's file at the start: missing, left by earlier cycles, or one in
\* which a person has put a completed line above an active line of its text.
FailDocs ==
    StartDocs \cup {CheckedLine(<<"a">>) \o UncheckedLine(<<"a">>)}

InitFail ==
    /\ LoopIdle /\ StartIdle /\ PostIdle /\ ParseIdle /\ SlackIdle /\ IdsIdle /\ MergeIdle /\ NotesIdle
    /\ feed \in {t \in Feeds : Len(t) <= MaxLiveFeed}
    /\ files \in {[d \in Dates |-> IF d = 1 THEN f ELSE None] :
                    f \in {None} \cup {Some(doc) : doc \in FailDocs}}

SpecFail == InitFail /\ [][NextFail]_vars

\* The same loop, started with no file against a source of at most one task.
InitLive ==
    /\ LoopIdle /\ StartIdle /\ PostIdle /\ ParseIdle /\ SlackIdle /\ IdsIdle /\ NoFiles /\ MergeIdle /\ NotesIdle
    /\ feed \in {t \in Feeds : Len(t) <= MaxLiveFeed}

SpecLive == InitLive /\ [][NextFail]_vars /\ WF_vars(NextFail)

\* ------------------------------------------------------ the parser alone
\* Lines of the documents handed to the parser.
MaxParseLines == 2

\* Lines a document can hold: the two headings, a blank line, the two
\* placeholders, a metadata line, plain text, the checkbox forms (also
\* without a blank after the box, bare, indented, or with the box inside
\* the line), an upper-case box, the legacy forms, and the delimiter.
ParseLines ==
    {<<HActive>>, <<HCompleted>>, <<>>, <<NoActive>>, <<NoCompleted>>,
     MetadataLine(<<"1", ".", "1">>), <<"a">>,
     <<BoxOpen, SP, "a">>, <<BoxDone, SP, "b">>, <<BoxDone, SP, "a", SP, Marker>>,
     <<BoxOpen, "a">>, <<BoxOpen>>, <<SP, SP, BoxOpen, SP, "a">>,
     <<"a", SP, BoxOpen, SP, "b">>, <<"- [X]", SP, "a">>,
     <<LegacyTodo, SP, "a">>, <<LegacyDone, SP, "b">>,
     <<Delim>>}

ParseDocs == {Flatten([i \in DOMAIN ls |-> ls[i] \o <<NL>>]) :
                ls \in SeqsUpTo(ParseLines, MaxParseLines)}

InitParse ==
    /\ LoopIdle /\ StartIdle /\ PostIdle /\ SlackIdle /\ IdsIdle /\ NoFiles /\ FeedIdle
    /\ MergeIdle /\ NotesIdle
    /\ p_in \in ParseDocs
    /\ p_stage = "in"
    /\ p_out = [todos |-> <<>>, notes |-> None]

ParseCall ==
    /\ p_stage = "in"
    /\ p_out' = parse_existing_markdown(p_in)
    /\ p_stage' = "parsed"
    /\ UNCHANGED p_in
    /\ UNCHANGED <<loop_vars, merge_vars, notes_vars, post_vars, ids_vars, start_vars, slack_vars>>

NextParse == ParseCall

SpecParse == InitParse /\ [][NextParse]_vars

\* ------------------------------------------------------- the calendar
\* Utc::now() (lines 342, 464) gives the next calendar date from now on.
Midnight ==
    /\ today + 1 \in Dates
    /\ today' = today + 1
    /\ UNCHANGED <<files, pc, iteration, date_str, existing_todos,
                   existing_message_id, preserved_notes, all_current_todos,
                   markdown_content, ps_date, ps_content, ps_message,
                   ps_message_id, calls, human_edits, faults, feed,
                   fetch_failed, read_failed>>
    /\ UNCHANGED <<hist_vars, merge_vars, notes_vars, post_vars, ids_vars, start_vars, parse_vars, slack_vars>>

\* The loop with its failures, the date changing at any moment.
NextDays == NextFail \/ Midnight

\* The first date's file is missing or holds an entry and a person's notes.
InitDays ==
    /\ LoopIdle /\ StartIdle /\ PostIdle /\ ParseIdle /\ SlackIdle /\ IdsIdle /\ MergeIdle /\ NotesIdle
    /\ feed \in {t \in Feeds : Len(t) <= MaxLiveFeed}
    /\ files \in {[d \in Dates |-> None],
                  [d \in Dates |-> IF d = 1
                                   THEN Some(UncheckedLine(<<"a">>)
                                             \o <<Delim, NL, "n", NL>>)
                                   ELSE None]}

SpecDays == InitDays /\ [][NextDays]_vars

\* ------------------------------------------------------------- startup
\* A load that does not look at slack_bot_token.
ConfigLoadOneToken(file) ==
    IF file.kind # "parsed" THEN [ok |-> FALSE, val |-> DefaultConfig]
    ELSE IF file.cfg.todoist_api_token = "" THEN [ok |-> FALSE, val |-> DefaultConfig]
    ELSE [ok |-> TRUE, val |-> file.cfg]

\* Config::load, lines 40-78: Result<Config, _>. A missing file gives Err
\* (after a default file has been written), and so does a file that cannot be
\* read or parsed, or one whose todoist_api_token or slack_bot_token is empty.
ConfigLoad(file) ==
    IF file.kind # "parsed" THEN [ok |-> FALSE, val |-> DefaultConfig]
    ELSE IF file.cfg.todoist_api_token = "" THEN [ok |-> FALSE, val |-> DefaultConfig]
    ELSE IF file.cfg.slack_bot_token = "" THEN [ok |-> FALSE, val |-> DefaultConfig]
    ELSE [ok |-> TRUE, val |-> file.cfg]

\* Lines 309-339: main up to the loop. On Err of Config::load main returns;
\* a failure of create_dir_all is only warned about. With the file missing,
\* Config::load writes the default file when its own create_dir_all and write
\* succeed (io).
Startup(io) ==
    /\ pc = "start"
    /\ (config_file.kind # "missing" => io)
    /\ LET r == ConfigLoad(config_file)
       IN /\ config' = (IF r.ok THEN Some(r.val) ELSE None)
          /\ pc' = (IF r.ok THEN "read" ELSE "exited")
    /\ config_file' = (IF config_file.kind = "missing" /\ io
                       THEN Parsed(DefaultConfig) ELSE config_file)
    /\ UNCHANGED <<today, files, iteration, date_str, existing_todos,
                   existing_message_id, preserved_notes, all_current_todos,
                   markdown_content, ps_date, ps_content, ps_message,
                   ps_message_id, calls, human_edits, faults, feed,
                   fetch_failed, read_failed>>
    /\ UNCHANGED <<hist_vars, merge_vars, notes_vars, post_vars, ids_vars, parse_vars, slack_vars>>

OptionalStrings(x) == {None, Some(""), Some(x)}

\* The files a person can have left at the path of config.toml.
ConfigFiles ==
    {Missing, Unreadable, Unparsable}
    \cup {Parsed(ConfigOf(t, s, c, f, d)) :
            t \in {"", "todoist-token"}, s \in {"", "xoxb-token"},
            c \in OptionalStrings("#general"),
            f \in OptionalStrings("(overdue | today) & #Work"),
            d \in OptionalStrings("~/slaist")}

\* The process has just been started.
InitStart ==
    /\ LoopLocals /\ pc = "start"
    /\ config = None
    /\ config_file \in ConfigFiles
    /\ PostIdle /\ ParseIdle /\ SlackIdle /\ IdsIdle /\ NoFiles /\ FeedIdle /\ MergeIdle /\ NotesIdle

NextStart ==
    \/ \E io \in BOOLEAN : Startup(io)
    \/ NextFail

SpecStart == InitStart /\ [][NextStart]_vars

\* ----------------------------------------------- the slack_post binary
\* Runs of the binary slack_post that are followed.
MaxPostRuns == 1

\* slack_post.rs, line 74: the message built from the file's text.
PostMessage(d, markdown) == <<DateHeader(d), NL, NL>> \o markdown

\* slack_post.rs, main: one run of the binary, from the read of today's file
\* to the result of post_message. It returns early when the file is missing,
\* unreadable or blank, or when the client cannot be built.
SlackPostMain(read_ok, client_ok, resp) ==
    /\ Len(sp_calls) < MaxPostRuns
    /\ (~read_ok => IsSome(files[today]))
    /\ IF IsSome(files[today]) /\ read_ok /\ ~IsBlank(Unwrap(files[today])) /\ client_ok
       THEN LET r == post_message(resp)
            IN sp_calls' = Append(sp_calls,
                                  [op |-> "post",
                                   body |-> PostMessage(today, Unwrap(files[today])),
                                   ok |-> r.ok])
       ELSE UNCHANGED sp_calls
    /\ UNCHANGED <<loop_vars, merge_vars, notes_vars, ids_vars, start_vars, parse_vars, slack_vars>>

\* The sync loop over a steady source, and the slack_post binary run by hand
\* at any moment.
NextPost ==
    \/ NextSteady
    \/ \E read_ok \in BOOLEAN, client_ok \in BOOLEAN, resp \in Responses :
         SlackPostMain(read_ok, client_ok, resp)

\* No file yet, and a steady source.
InitPost ==
    /\ LoopIdle /\ StartIdle /\ PostIdle /\ ParseIdle /\ SlackIdle /\ IdsIdle /\ NoFiles /\ MergeIdle /\ NotesIdle
    /\ feed \in Feeds

SpecPost == InitPost /\ [][NextPost]_vars

\* ------------------------------------------------- the merge, cycle on cycle
\* parse_existing_markdown and generate_markdown_content applied as main
\* applies them (lines 355-357, 405-410), with every read and write succeeding,
\* starting from a document a person may have edited: its entry lines come in
\* any order.
PriorLines ==
    UNION {{UncheckedLine(t), CheckedLine(t), AnnotatedLine(t)} : t \in Texts}

PriorDocs(n) == {Flatten(ls) : ls \in SeqsUpTo(PriorLines, n)}

Reconcile(content, current_todos) ==
    LET parsed == parse_existing_markdown(content)
    IN generate_markdown_content(current_todos, parsed.todos,
                                 extract_slack_message_id(content), parsed.notes)

MergeStep(current_todos) ==
    /\ m_docs' = Append(m_docs, Reconcile(m_docs[Len(m_docs)], current_todos))
    /\ m_fetches' = Append(m_fetches, current_todos)
    /\ UNCHANGED <<loop_vars, notes_vars, post_vars, ids_vars, start_vars, parse_vars, slack_vars>>

\* One cycle, from any document of up to MaxPriorLines entry lines.
InitMerge ==
    /\ LoopIdle /\ StartIdle /\ PostIdle /\ ParseIdle /\ SlackIdle /\ IdsIdle /\ NoFiles /\ FeedIdle /\ NotesIdle
    /\ m_docs \in {<<d>> : d \in PriorDocs(MaxPriorLines)}
    /\ m_fetches = <<>>

MergeOnce(current_todos) ==
    /\ m_fetches = <<>>
    /\ MergeStep(current_todos)

NextMerge ==
    \E current_todos \in SeqsUpTo(Todos(Texts), MaxFetch) : MergeOnce(current_todos)

SpecMerge == InitMerge /\ [][NextMerge]_vars

\* MaxMergeCycles cycles in a row, each parsing the document of the one before.
InitMerge2 ==
    /\ LoopIdle /\ StartIdle /\ PostIdle /\ ParseIdle /\ SlackIdle /\ IdsIdle /\ NoFiles /\ FeedIdle /\ NotesIdle
    /\ m_docs \in {<<d>> : d \in PriorDocs(MaxPriorLines2)}
    /\ m_fetches = <<>>

MergeCycle(current_todos) ==
    /\ Len(m_fetches) < MaxMergeCycles
    /\ MergeStep(current_todos)

NextMerge2 ==
    \E current_todos \in SeqsUpTo(Todos(Texts), MaxFetch) : MergeCycle(current_todos)

SpecMerge2 == InitMerge2 /\ [][NextMerge2]_vars

\* ------------------------------------------------- the notes, parse and render
\* A tail of up to MaxTailLines lines, with or without its final newline.
Tails ==
    {Join(ls) \o e : ls \in SeqsUpTo(NoteLines, MaxTailLines), e \in {<<>>, <<NL>>}}

InitNotes ==
    /\ LoopIdle /\ StartIdle /\ PostIdle /\ ParseIdle /\ SlackIdle /\ IdsIdle /\ NoFiles /\ FeedIdle /\ MergeIdle
    /\ n_in \in Tails
    /\ n_stage = "in"
    /\ n_notes = None
    /\ n_out = <<>>

\* The document "---\n" + tail goes through parse_existing_markdown.
NotesParse ==
    /\ n_stage = "in"
    /\ n_notes' = parse_existing_markdown(<<Delim, NL>> \o n_in).notes
    /\ n_stage' = "parsed"
    /\ UNCHANGED <<n_in, n_out>>
    /\ UNCHANGED <<loop_vars, merge_vars, post_vars, ids_vars, start_vars, parse_vars, slack_vars>>

\* The tail goes to the renderer as it is.
NotesPass ==
    /\ n_stage = "in"
    /\ n_notes' = Some(n_in)
    /\ n_stage' = "passed"
    /\ UNCHANGED <<n_in, n_out>>
    /\ UNCHANGED <<loop_vars, merge_vars, post_vars, ids_vars, start_vars, parse_vars, slack_vars>>

NotesRender ==
    /\ n_stage \in {"parsed", "passed"}
    /\ n_out' = generate_markdown_content(<<>>, <<>>, None, n_notes)
    /\ n_stage' = IF n_stage = "parsed" THEN "rendered" ELSE "passed_rendered"
    /\ UNCHANGED <<n_in, n_notes>>
    /\ UNCHANGED <<loop_vars, merge_vars, post_vars, ids_vars, start_vars, parse_vars, slack_vars>>

NextNotes == NotesParse \/ NotesPass \/ NotesRender

SpecNotes == InitNotes /\ [][NextNotes]_vars

\* ------------------------------------------------- the id helpers alone
\* Lines of the texts handed to the helpers.
MaxIdLines == 2

Id11 == <<"1", ".", "1">>
Id22 == <<"2", ".", "2">>

\* Lines of a document: a plain line, well-formed metadata lines, an indented
\* and an unterminated one (neither matches lines 257, 277), and a metadata
\* line whose id itself ends with " -->".
IdLines ==
    {<<"a">>, MetadataLine(Id11), MetadataLine(Id22),
     <<SP>> \o MetadataLine(Id11),
     <<IdPrefix>> \o Id11,
     MetadataLine(<<"1", IdSuffix>>)}

IdTexts ==
    LET seqs == SeqsUpTo(IdLines, MaxIdLines)
    IN {Join(ls) : ls \in seqs} \cup {Join(ls) \o <<NL>> : ls \in seqs}

\* Values of message_id: timestamps, the fallback of post_message, and strings
\* a server or a caller can hand in.
IdValues ==
    {Id11, Id22, <<"3", ".", "3">>, <<>>, Unknown,
     <<"1", IdSuffix>>, <<IdPrefix, "1">>, <<"1", NL, "2">>,
     <<"1">>, <<"1", ".", "2", ".", "3">>, <<"a", ".", "1">>, <<"1", ".", "a">>,
     <<"1", ".">>, <<".", "1">>, <<".">>,
     <<"+", "1", ".", "2">>, <<"-", "1", ".", "2">>, <<"1", ".", " ", "2">>,
     <<"0", "0", ".", "0">>,
     U64MaxDigits \o <<".", "1">>,
     <<"1", "8", "4", "4", "6", "7", "4", "4", "0", "7",
       "3", "7", "0", "9", "5", "5", "1", "6", "1", "6", ".", "1">>,
     <<"0">> \o U64MaxDigits \o <<".", "1">>,
     <<"1", ".", "1", "0", "0", "0", "0", "0", "0", "0", "0", "0", "0",
       "0", "0", "0", "0", "0", "0", "0", "0", "0", "0">>}

InitIds ==
    /\ LoopIdle /\ StartIdle /\ PostIdle /\ ParseIdle /\ SlackIdle /\ NoFiles /\ FeedIdle /\ MergeIdle /\ NotesIdle
    /\ k_text \in IdTexts
    /\ k_id \in IdValues
    /\ k_stage = "in"
    /\ k_found = None /\ k_out = <<>> /\ k_got = None /\ k_valid = FALSE

IdsExtract ==
    /\ k_stage = "in"
    /\ k_found' = extract_slack_message_id(k_text)
    /\ k_stage' = "found"
    /\ UNCHANGED <<k_text, k_id, k_out, k_got, k_valid>>
    /\ UNCHANGED <<loop_vars, merge_vars, notes_vars, post_vars, start_vars, parse_vars, slack_vars>>

IdsAdd ==
    /\ k_stage = "found"
    /\ k_out' = add_slack_message_id(k_text, k_id)
    /\ k_stage' = "added"
    /\ UNCHANGED <<k_text, k_id, k_found, k_got, k_valid>>
    /\ UNCHANGED <<loop_vars, merge_vars, notes_vars, post_vars, start_vars, parse_vars, slack_vars>>

IdsExtractAgain ==
    /\ k_stage = "added"
    /\ k_got' = extract_slack_message_id(k_out)
    /\ k_stage' = "extracted"
    /\ UNCHANGED <<k_text, k_id, k_found, k_out, k_valid>>
    /\ UNCHANGED <<loop_vars, merge_vars, notes_vars, post_vars, start_vars, parse_vars, slack_vars>>

IdsValidate ==
    /\ k_stage = "extracted"
    /\ k_valid' = validate_message_id(k_id)
    /\ k_stage' = "done"
    /\ UNCHANGED <<k_text, k_id, k_found, k_out, k_got>>
    /\ UNCHANGED <<loop_vars, merge_vars, notes_vars, post_vars, start_vars, parse_vars, slack_vars>>

NextIds == IdsExtract \/ IdsAdd \/ IdsExtractAgain \/ IdsValidate

SpecIds == InitIds /\ [][NextIds]_vars

\* ------------------------------------------------------------ properties
\* The positions of the loop at which markdown_content is the document this
\* cycle rendered.
Rendered == pc \in {"ps_read", "ps_update", "ps_post", "sleep"}

Occurrences(todos, t) == Cardinality({i \in DOMAIN todos : todos[i].content = t})

\* C1: in every stored document, after any cycles on one date, no entry text
\* is both on an unchecked line and on a checked line.
C1_MutuallyExclusive ==
    \A d \in Dates :
        IsSome(files[d]) =>
            UncheckedTexts(Unwrap(files[d])) \cap CheckedTexts(Unwrap(files[d])) = {}

\* C2: a text the fetch contains once is shown only with the checkbox state of
\* the fetched record: fetched as not completed it is on no checked line, and
\* fetched as completed it is on no unchecked line.
C2_CurrentStateWins ==
    Rendered =>
        \A i \in DOMAIN all_current_todos :
            LET todo == all_current_todos[i]
            IN Occurrences(all_current_todos, todo.content) = 1 =>
                   IF todo.checked
                   THEN ~OnUnchecked(markdown_content, todo.content)
                   ELSE ~OnChecked(markdown_content, todo.content)

\* C3: a text the stored document of the cycle before shows as completed,
\* annotated or not, is not rendered with the annotation by this cycle.
C3_AnnotatedOnce ==
    (Rendered /\ IsSome(file_at_read)) =>
        AnnotatedTexts(markdown_content) \cap CheckedTexts(Unwrap(file_at_read)) = {}

\* The merge pipeline after its first cycle: the entries parsed from the
\* document it started from, the fetch, and the document rendered.
MergedOnce == Len(m_docs) >= 2
PriorEntries == parse_existing_markdown(m_docs[1]).todos
FirstFetch == m_fetches[1]
FirstRender == m_docs[2]

OnePlainCheckedLine(content, t) ==
    /\ CountLines(content, PlainChecked(t)) = 1
    /\ CountLines(content, Annotated(t)) = 0
    /\ CountLines(content, Unchecked(t)) = 0

AllPlain(todos) == \A i \in DOMAIN todos : IsPlain(todos[i].content)

NoMarkerAtEnd(texts) == \A t \in texts : ~EndsWith(t, <<Marker>>)

EntryTexts(entries) == {entries[i][1] : i \in DOMAIN entries}

\* C4 as stated: a text rendered with the annotation by one cycle and absent
\* from the fetch of the next is on exactly one checked line, unannotated, in
\* the next document.
C4_AsStated ==
    Len(m_docs) = 3 =>
        \A t \in Texts :
            (OnAnnotated(m_docs[2], t) /\ t \notin CurrentContents(m_fetches[2]))
                => OnePlainCheckedLine(m_docs[3], t)

\* C4: the same, for a text with no blank at either end and no marker at its
\* end, when no text of the two fetches has one either and no entry of the
\* document the first cycle parsed ends with the marker.
C4_NoDoubleAnnotation ==
    Len(m_docs) = 3 =>
        \A t \in Texts :
            (/\ OnAnnotated(m_docs[2], t)
             /\ t \notin CurrentContents(m_fetches[2])
             /\ IsPlain(t) /\ AllPlain(m_fetches[1]) /\ AllPlain(m_fetches[2])
             /\ NoMarkerAtEnd(EntryTexts(PriorEntries)))
                => OnePlainCheckedLine(m_docs[3], t)

C4_Witness ==
    /\ Len(m_docs) = 3
    /\ OnAnnotated(m_docs[2], <<"a">>)
    /\ <<"a">> \notin CurrentContents(m_fetches[2])
    /\ AllPlain(m_fetches[1]) /\ AllPlain(m_fetches[2])
    /\ NoMarkerAtEnd(EntryTexts(PriorEntries))
    /\ m_fetches[2] # <<>>
    /\ OnePlainCheckedLine(m_docs[3], <<"a">>)

\* A text the prior entries hold as active and the fetch holds as completed.
ActiveThenCompleted(t) ==
    /\ \E i \in DOMAIN PriorEntries : PriorEntries[i] = <<t, FALSE>>
    /\ \E i \in DOMAIN FirstFetch : FirstFetch[i] = Todo(t, TRUE)

\* C5 as stated: a text that is active in the prior entries and completed in
\* the fetch is on exactly one line of the rendered document, a checked line
\* without the annotation.
C5_AsStated ==
    MergedOnce =>
        \A t \in Texts : ActiveThenCompleted(t) => OnePlainCheckedLine(FirstRender, t)

\* C5: the same, when the fetch holds the text on one record only and no text
\* of the fetch or of the prior entries ends with the marker.
C5_CurrentWins ==
    MergedOnce =>
        \A t \in Texts :
            (/\ ActiveThenCompleted(t)
             /\ Occurrences(FirstFetch, t) = 1
             /\ NoMarkerAtEnd(CurrentContents(FirstFetch) \cup EntryTexts(PriorEntries)))
                => OnePlainCheckedLine(FirstRender, t)

C5_Witness ==
    /\ MergedOnce
    /\ ActiveThenCompleted(<<"a">>)
    /\ Occurrences(FirstFetch, <<"a">>) = 1
    /\ Len(FirstFetch) = 2
    /\ NoMarkerAtEnd(CurrentContents(FirstFetch) \cup EntryTexts(PriorEntries))
    /\ OnePlainCheckedLine(FirstRender, <<"a">>)

\* C6 as stated: every prior entry that was not completed and whose text the
\* fetch lacks has a checked line with the annotation in the rendered document.
C6_AsStated ==
    MergedOnce =>
        \A i \in DOMAIN PriorEntries :
            (~PriorEntries[i][2] /\ PriorEntries[i][1] \notin CurrentContents(FirstFetch))
                => OnAnnotated(FirstRender, PriorEntries[i][1])

\* C6: the same, for a prior entry that no earlier prior entry of the same
\* text records as completed.
C6_MissingIsAnnotated ==
    MergedOnce =>
        \A i \in DOMAIN PriorEntries :
            (/\ ~PriorEntries[i][2]
             /\ PriorEntries[i][1] \notin CurrentContents(FirstFetch)
             /\ \A j \in 1..(i - 1) : PriorEntries[j] # <<PriorEntries[i][1], TRUE>>)
                => OnAnnotated(FirstRender, PriorEntries[i][1])

C6_Witness ==
    /\ MergedOnce
    /\ PriorEntries = <<<<(<<"a">>), FALSE>>, <<(<<"b">>), FALSE>>>>
    /\ FirstFetch = <<>>
    /\ OnAnnotated(FirstRender, <<"a">>) /\ OnAnnotated(FirstRender, <<"b">>)

\* C7: every entry the prior document of this cycle records as completed and
\* whose text the fetch lacks has a checked line without the annotation in the
\* rendered document, and no line with it.
C7_PreservedPlain ==
    Rendered =>
        \A i \in DOMAIN existing_todos :
            (existing_todos[i][2]
             /\ existing_todos[i][1] \notin CurrentContents(all_current_todos))
                => /\ OnPlainChecked(markdown_content, existing_todos[i][1])
                   /\ ~OnAnnotated(markdown_content, existing_todos[i][1])

\* C8: when nobody edits the file during a cycle, the notes of the stored
\* document after the cycle are the notes the file had when the cycle began,
\* up to newlines at the end.
C8_NotesSurvive ==
    (pc = "sleep" /\ edits_at_read = human_edits) =>
        NormNL(TailText(files[date_str])) = NormNL(TailText(file_at_read))

\* C9: a delimiter line followed by any tail lines, parsed and rendered again,
\* has after its first delimiter the original tail, but for its final newline.
C9_TailRoundTrip ==
    n_stage = "rendered" => SameUpToFinalNL(TailText(Some(n_out)), n_in)

\* C10: for every tail given to the renderer the document ends with one
\* newline and not with two.
C10_OneFinalNewline ==
    (n_stage \in {"rendered", "passed_rendered"} /\ IsSome(n_notes)) =>
        EndsWith(n_out, <<NL>>) /\ ~EndsWith(n_out, <<NL, NL>>)

\* The texts a document parses to, active and completed.
ParsedActive(content) ==
    LET es == parse_existing_markdown(content).todos
    IN {es[i][1] : i \in {j \in DOMAIN es : ~es[j][2]}}

ParsedCompleted(content) ==
    LET es == parse_existing_markdown(content).todos
    IN {es[i][1] : i \in {j \in DOMAIN es : es[j][2]}}

SamePartition(x, y) ==
    ParsedActive(x) = ParsedActive(y) /\ ParsedCompleted(x) = ParsedCompleted(y)

C12_Fixpoint ==
    (pc = "sleep" /\ iteration = 3 /\ faults = {})
        => files[date_str] = file_at_read

\* The id the day's file holds; None when there is no file or no metadata line.
StoredId(file) == IF IsSome(file) THEN extract_slack_message_id(Unwrap(file)) ELSE None

\* The chat calls of a cycle: one post, after which the file holds the id it
\* returned; or one update of the id the file held when the cycle began, which
\* the file still holds.
PostedOnce ==
    /\ Len(calls) = 1
    /\ calls[1].op = "post"
    /\ StoredId(files[date_str]) = calls[1].id

UpdatedOnce ==
    /\ Len(calls) = 1
    /\ calls[1].op = "update"
    /\ IsSome(calls[1].ts)
    /\ calls[1].ts = StoredId(file_at_read)
    /\ StoredId(files[date_str]) = calls[1].ts

\* C13 as stated: when every chat call and every file write succeeds and each
\* post returns a valid id, the first cycle posts once and every later cycle
\* updates the message of that id.
C13_AsStated ==
    (pc = "sleep" /\ faults \cap {"chat", "write", "no_ts"} = {})
        => IF iteration = 1 THEN PostedOnce ELSE UpdatedOnce

\* C13: the same, when every read of the day's file succeeds too.
C13_PostOnceThenUpdate ==
    (pc = "sleep" /\ faults = {})
        => IF iteration = 1 THEN PostedOnce ELSE UpdatedOnce

C13_Witness ==
    /\ pc = "sleep" /\ faults = {} /\ iteration = 3
    /\ UpdatedOnce
    /\ calls[1].ts = Some(<<"2", ".", "2">>)
    /\ all_current_todos # <<>>

\* An id of the form <integer>.<integer>: digits, one dot, digits.
TwoIntegers(id) ==
    \E k \in 2..(Len(id) - 1) :
        /\ id[k] = "."
        /\ \A j \in DOMAIN id : j # k => id[j] \in Digits

CallsOf(op) == {i \in DOMAIN calls : calls[i].op = op}

\* The cycle got as far as the chat calls, with the document ps_content.
Published == pc = "sleep" /\ calls # <<>>

HeldValidId == IsSome(ps_message_id) /\ TwoIntegers(Unwrap(ps_message_id))

MetadataCount(content) ==
    LET ls == Lines(content)
    IN Cardinality({i \in DOMAIN ls :
                      StartsWith(ls[i], <<IdPrefix>>) /\ EndsWith(ls[i], <<IdSuffix>>)})

UpdateFailed == pc = "sleep" /\ calls # <<>> /\ calls[1].op = "update" /\ ~calls[1].ok

NoPostSucceeded ==
    /\ pc = "sleep"
    /\ \A i \in DOMAIN calls : ~(calls[i].op = "post" /\ calls[i].ok)

Bodies ==
    {calls[i].body : i \in DOMAIN calls} \cup {sp_calls[i].body : i \in DOMAIN sp_calls}

\* C17: no message body handed to the chat client, by the sync loop or by
\* slack_post, contains a metadata line.
C17_NoMetadataInBodies == \A body \in Bodies : MetadataCount(body) = 0

\* The part of C17 that is about the sync loop alone.
C17_LoopBodiesClean ==
    \A i \in DOMAIN calls : MetadataCount(calls[i].body) = 0

C17_LoopWitness ==
    /\ calls # <<>>
    /\ IsSome(StoredId(Some(ps_content)))
    /\ MetadataCount(calls[1].body) = 0

\* ------------------------------------------------------- the id helpers
\* The lines of a text that are metadata lines.
MetaIndexes(text) ==
    LET ls == Lines(text)
    IN {i \in DOMAIN ls : Len(ls[i]) >= 2 /\ Head(ls[i]) = IdPrefix
                          /\ ls[i][Len(ls[i])] = IdSuffix}

\* What stands between the prefix and the suffix of a metadata line.
IdOf(line) == SubSeq(line, 2, Len(line) - 1)

MinOf(S) == CHOOSE i \in S : \A j \in S : i <= j

\* The id of the first metadata line of a text.
FirstId(text) ==
    IF MetaIndexes(text) = {} THEN None
    ELSE Some(IdOf(Lines(text)[MinOf(MetaIndexes(text))]))

\* An id a metadata line can carry: it holds no line break, does not begin
\* with the prefix of the metadata line and does not end with its suffix.
PlainId(id) ==
    /\ \A i \in DOMAIN id : id[i] # NL
    /\ id # <<>> => Head(id) # IdPrefix /\ id[Len(id)] # IdSuffix

PlainIdsIn(text) ==
    \A i \in MetaIndexes(text) : PlainId(IdOf(Lines(text)[i]))

\* C18 as stated: for every text and id, extract(inject(text, id)) is the id;
\* extract is None without a metadata line and the id of the first one
\* otherwise.
C18_AsStated ==
    /\ k_stage \in {"extracted", "done"} => k_got = Some(k_id)
    /\ k_stage \notin {"idle", "in"} => k_found = FirstId(k_text)

\* C18: the same for ids, given and in the text, that hold no line break, do
\* not begin with "<!-- slack_message_id: " and do not end with " -->".
C18_RoundTrip ==
    /\ (k_stage \in {"extracted", "done"} /\ PlainId(k_id)) => k_got = Some(k_id)
    /\ (k_stage \notin {"idle", "in"} /\ PlainIdsIn(k_text)) => k_found = FirstId(k_text)

C18_Witness ==
    /\ k_stage = "extracted"
    /\ k_id = <<"3", ".", "3">>
    /\ Cardinality(MetaIndexes(k_text)) = 2
    /\ k_found = Some(Id22)
    /\ k_got = Some(k_id)

\* inject has been applied to a text that holds a metadata line.
InjectedOver == k_stage \in {"added", "extracted", "done"} /\ MetaIndexes(k_text) # {}

\* The text holds exactly one metadata line, and it is the one of this id.
OnlyLineOf(text, id) ==
    \E i \in MetaIndexes(text) :
        /\ MetaIndexes(text) = {i}
        /\ Lines(text)[i] = MetadataLine(id)

\* C19 as stated: inject on a text that holds a metadata line leaves exactly
\* one metadata line, that of the new id.
C19_AsStated == InjectedOver => OnlyLineOf(k_out, k_id)

\* C19: the same for a text that holds exactly one metadata line and an id
\* without a line break.
C19_ReplacesTheLine ==
    (/\ InjectedOver
     /\ Cardinality(MetaIndexes(k_text)) = 1
     /\ \A i \in DOMAIN k_id : k_id[i] # NL)
        => OnlyLineOf(k_out, k_id)

C19_Witness ==
    /\ k_stage = "added"
    /\ k_id = Id22
    /\ FirstId(k_text) = Some(Id11)
    /\ Cardinality(MetaIndexes(k_text)) = 1
    /\ Len(Lines(k_text)) = 2
    /\ OnlyLineOf(k_out, Id22)

\* The digits of a decimal numeral, after an optional "+".
Unsigned(part) == IF part # <<>> /\ Head(part) = "+" THEN Tail(part) ELSE part

\* A decimal numeral of a non-negative integer, of any size.
Numeral(part) ==
    /\ Unsigned(part) # <<>>
    /\ \A i \in DOMAIN Unsigned(part) : Unsigned(part)[i] \in Digits

\* The id holds one dot, and the texts before and after it satisfy P.
Dotted(id, P(_)) ==
    \E k \in DOMAIN id :
        /\ {j \in DOMAIN id : id[j] = "."} = {k}
        /\ P(SubSeq(id, 1, k - 1))
        /\ P(SubSeq(id, k + 1, Len(id)))

NumeralU64(part) == Numeral(part) /\ FitsU64(Unsigned(part))

\* C20 as stated: validate accepts exactly the ids made of two numerals of
\* non-negative integers around one dot.
C20_AsStated == k_stage = "done" => (k_valid <=> Dotted(k_id, Numeral))

\* C20: validate accepts exactly the ids made of two numerals around one dot,
\* each of a value below 2^64.
C20_ValidateIffTwoU64 == k_stage = "done" => (k_valid <=> Dotted(k_id, NumeralU64))

C20_Witness ==
    /\ k_stage = "done"
    /\ k_id = U64MaxDigits \o <<".", "1">>
    /\ k_valid

\* ------------------------------------------------------ failure handling
\* C21: whatever fails in a cycle, the cycle ends and the next one begins.
C21_NextCycleBegins ==
    \A n \in 1..MaxCycles : (iteration = n) ~> (iteration = n + 1 /\ pc = "read")

\* A cycle in which the read of the prior document, the fetch, the write of
\* the file, the update and the post have all failed.
C21_Witness ==
    /\ pc = "sleep"
    /\ fetch_failed
    /\ IsSome(file_at_read)
    /\ parse_existing_markdown(Unwrap(file_at_read)).todos # <<>>
    /\ existing_todos = <<>>
    /\ files[date_str] # Some(markdown_content)
    /\ Len(calls) = 2 /\ ~calls[1].ok /\ ~calls[2].ok

\* The cycle's fetch has failed and its document has been rendered.
FetchFailedCycle == fetch_failed /\ pc \in {"ps_read", "ps_update", "ps_post", "sleep"}

\* The document an empty fetch gives from this cycle's prior state.
EmptyFetchDocument ==
    generate_markdown_content(<<>>, existing_todos, existing_message_id, preserved_notes)

PriorActive == {existing_todos[i][1] : i \in {j \in DOMAIN existing_todos : ~existing_todos[j][2]}}
PriorCompleted == {existing_todos[i][1] : i \in {j \in DOMAIN existing_todos : existing_todos[j][2]}}

\* No active line, every prior completed text on a plain completed line,
\* every prior active text on an annotated line.
AllMovedToCompleted(content) ==
    /\ UncheckedTexts(content) = {}
    /\ \A t \in PriorCompleted : OnPlainChecked(content, t)
    /\ \A t \in PriorActive : OnAnnotated(content, t)

\* The prior entry i is active and no completed entry of its text stands
\* above it.
ActiveFirst(i) ==
    /\ ~existing_todos[i][2]
    /\ \A j \in 1..(i - 1) :
         ~(existing_todos[j][2] /\ existing_todos[j][1] = existing_todos[i][1])

\* The file after the cycle's write of text: written, untouched, or emptied.
WrittenOrFailed(text) ==
    pc = "ps_read" => files[date_str] \in {Some(text), file_at_read, Some(<<>>)}

\* C22 as stated: after a failed fetch the rendered document is the one of an
\* empty fetch, with every prior active entry annotated.
C22_AsStated ==
    FetchFailedCycle =>
        /\ markdown_content = EmptyFetchDocument
        /\ AllMovedToCompleted(markdown_content)

\* C22: after a failed fetch the rendered document is the one of an empty
\* fetch: no active line, every prior completed text on a plain line, and
\* every prior active entry annotated unless a completed entry of its text
\* stands above it in the prior document.
C22_FailedFetchIsEmptyFetch ==
    FetchFailedCycle =>
        /\ markdown_content = EmptyFetchDocument
        /\ WrittenOrFailed(EmptyFetchDocument)
        /\ UncheckedTexts(markdown_content) = {}
        /\ \A t \in PriorCompleted : OnPlainChecked(markdown_content, t)
        /\ \A i \in DOMAIN existing_todos :
             ActiveFirst(i) => OnAnnotated(markdown_content, existing_todos[i][1])

C22_Witness ==
    /\ FetchFailedCycle
    /\ pc = "ps_read"
    /\ PriorActive = {<<"a">>} /\ PriorCompleted = {<<"b">>}
    /\ files[date_str] = Some(markdown_content)
    /\ OnAnnotated(markdown_content, <<"a">>)
    /\ OnPlainChecked(markdown_content, <<"b">>)

\* The read of the day's existing file has failed in this cycle, and the
\* cycle has passed its write.
ReadFailedCycle ==
    read_failed /\ IsSome(file_at_read) /\ pc \in {"ps_read", "ps_update", "ps_post", "sleep"}

FetchedActive == {all_current_todos[i].content :
                    i \in {j \in DOMAIN all_current_todos : ~all_current_todos[j].checked}}
FetchedCompleted == {all_current_todos[i].content :
                       i \in {j \in DOMAIN all_current_todos : all_current_todos[j].checked}}

\* A document that holds the fetch and nothing else: its records on their
\* lines, no annotated line, no id, no tail.
FromFetchAlone(content) ==
    /\ UncheckedTexts(content) = FetchedActive
    /\ CheckedTexts(content) = FetchedCompleted
    /\ AnnotatedTexts(content) = {}
    /\ extract_slack_message_id(content) = None
    /\ TailOf(content) = None

\* The id a successful post of this cycle has returned.
PostedIds == {calls[i].id : i \in {j \in DOMAIN calls : calls[j].op = "post" /\ calls[j].ok}}

\* The file is the text, with at most the id of this cycle's post put in.
StoredAs(text) ==
    \/ files[date_str] = Some(text)
    \/ \E id \in PostedIds : files[date_str] = Some(add_slack_message_id(text, Unwrap(id)))

\* C23 as stated: after a failed read the cycle goes on from the empty prior
\* state and the file holds a document built from the fetch alone.
C23_AsStated ==
    ReadFailedCycle =>
        /\ existing_todos = <<>> /\ existing_message_id = None /\ preserved_notes = None
        /\ FromFetchAlone(markdown_content)
        /\ StoredAs(markdown_content)

\* C23: after a failed read the cycle goes on from the empty prior state and
\* renders a document built from the fetch alone; the write leaves it in the
\* file, or fails and leaves the file as it was or empty; where no write has
\* failed the file holds it when the cycle ends.
C23_EmptyPriorOnReadFailure ==
    ReadFailedCycle =>
        /\ existing_todos = <<>> /\ existing_message_id = None /\ preserved_notes = None
        /\ FromFetchAlone(markdown_content)
        /\ pc = "ps_read" => files[date_str] \in {Some(markdown_content), file_at_read, Some(<<>>)}
        /\ "write" \notin faults => StoredAs(markdown_content)

C23_Witness ==
    /\ ReadFailedCycle
    /\ pc = "sleep"
    /\ parse_existing_markdown(Unwrap(file_at_read)).todos # <<>>
    /\ IsSome(parse_existing_markdown(Unwrap(file_at_read)).notes)
    /\ all_current_todos # <<>>
    /\ files[date_str] = Some(markdown_content)
    /\ FromFetchAlone(markdown_content)

\* ---------------------------------------------------------------- startup
\* The file at the path of config.toml cannot be loaded: it is missing,
\* unreadable or unparsable, or one of the two tokens in it is empty.
LoadFails(file) ==
    \/ file.kind \in {"missing", "unreadable", "unparsable"}
    \/ file.cfg.todoist_api_token = ""
    \/ file.cfg.slack_bot_token = ""

\* Nothing of a cycle has happened: no fetch, no day file, no chat call.
NoCycleRan ==
    /\ pc = "exited"
    /\ iteration = 1
    /\ files = [d \in Dates |-> None]
    /\ calls = <<>> /\ sp_calls = <<>>
    /\ ~fetch_failed /\ all_current_todos = <<>> /\ markdown_content = <<>>

\* C24: when the configuration cannot be loaded, main returns before the
\* loop: no fetch, no write of a day file and no chat call happens.
C24_NoCycleWithoutConfig ==
    (pc # "start" /\ LoadFails(config_file)) => NoCycleRan

C24_Witness ==
    /\ pc = "exited"
    /\ config_file.kind = "parsed"
    /\ config_file.cfg.todoist_api_token # ""
    /\ config_file.cfg.slack_bot_token = ""
    /\ NoCycleRan

\* The loop is running with this config.
LoopStarted == pc \notin {"start", "exited"} /\ IsSome(config)

\* No input of the config is the empty string; an absent optional field
\* stands for its default.
AllInputsNonEmpty(cfg) ==
    /\ cfg.todoist_api_token # ""
    /\ cfg.slack_bot_token # ""
    /\ cfg.slack_channel # Some("")
    /\ cfg.filter # Some("")
    /\ cfg.todos_directory # Some("")

\* C25: the loop runs only with a config none of whose inputs (the two
\* tokens, the channel, the filter, the directory) is empty.
C25_LoopOnlyWithFullConfig == LoopStarted => AllInputsNonEmpty(Unwrap(config))

\* The part of C25 the code does enforce: the two tokens.
C25_TokensNonEmpty ==
    LoopStarted =>
        /\ Unwrap(config).todoist_api_token # ""
        /\ Unwrap(config).slack_bot_token # ""

\* ----------------------------------------------------------- the calendar
\* A cycle of the second date that found no file of its date, past its write.
NewDateCycle ==
    /\ date_str = 2 /\ file_at_read = None
    /\ pc \in {"ps_read", "ps_update", "ps_post", "sleep"}

\* The file holds records of this cycle's fetch only, no id but the one a post
\* of this cycle returned, and no tail.
OnlyThisCycle(file) ==
    IsSome(file) =>
        /\ UncheckedTexts(Unwrap(file)) \subseteq FetchedActive
        /\ CheckedTexts(Unwrap(file)) \subseteq FetchedCompleted
        /\ AnnotatedTexts(Unwrap(file)) = {}
        /\ StoredId(file) \in {None} \cup PostedIds
        /\ TailOf(Unwrap(file)) = None

\* C26: no file of the second date exists before a cycle of that date; such
\* a cycle starts from the empty prior state and its file holds only what the
\* cycle itself fetched and posted; and a step changes no file but the one
\* of its cycle's date.
C26_NewDateStartsEmpty ==
    /\ [](date_str = 1 => files[2] = None)
    /\ [](NewDateCycle =>
            /\ existing_todos = <<>> /\ existing_message_id = None
            /\ preserved_notes = None
            /\ OnlyThisCycle(files[2]))
    /\ [][\A d \in Dates : files'[d] # files[d] => d = date_str]_vars

C26_Witness ==
    /\ NewDateCycle
    /\ pc = "sleep"
    /\ iteration > 1
    /\ IsSome(files[1])
    /\ CheckedTexts(Unwrap(files[1])) # {}
    /\ IsSome(StoredId(files[1]))
    /\ IsSome(TailOf(Unwrap(files[1])))
    /\ all_current_todos # <<>>
    /\ IsSome(files[2])
    /\ PostedIds # {}
    /\ StoredId(files[2]) \in PostedIds
    /\ StoredId(files[2]) # StoredId(files[1])

\* ------------------------------------------------------- the parser alone
\* The line, blanks at its ends aside, begins with a checkbox.
BoxLine(line) == Trim(line) # <<>> /\ Head(Trim(line)) \in {BoxOpen, BoxDone}

\* The same, the legacy forms ":todo:" and ":todo_done:" included.
EntryLine(line) ==
    Trim(line) # <<>> /\ Head(Trim(line)) \in {BoxOpen, BoxDone, LegacyTodo, LegacyDone}

\* One entry for each of these lines, in their order, completed where the
\* line's box is a done box.
EntriesFrom(selected) ==
    /\ Len(p_out.todos) = Len(selected)
    /\ \A i \in DOMAIN selected :
         i <= Len(p_out.todos) =>
            p_out.todos[i][2] = (Head(Trim(selected[i])) \in {BoxDone, LegacyDone})

KeepTexts == {<<"a">>, <<"a", SP, Marker>>}

KeepDocs == {UncheckedLine(<<"a">>) \o CheckedLine(<<"b">>), CheckedLine(<<"a">>)}

InitKeep ==
    /\ LoopIdle /\ StartIdle /\ PostIdle /\ ParseIdle /\ SlackIdle /\ IdsIdle /\ MergeIdle /\ NotesIdle
    /\ feed \in SeqsUpTo(Todos(KeepTexts), MaxLiveFeed)
    /\ files \in {[d \in Dates |-> IF d = 1 THEN f ELSE None] :
                    f \in {None} \cup {Some(doc) : doc \in KeepDocs}}

SpecKeep == InitKeep /\ [][NextFail]_vars

\* The entry texts a document holds, as the parser reads them.
EntryTextsOf(file) ==
    IF IsSome(file) THEN EntryTexts(parse_existing_markdown(Unwrap(file)).todos) ELSE {}

OnSomeLine(content, t) ==
    OnUnchecked(content, t) \/ OnPlainChecked(content, t) \/ OnAnnotated(content, t)

\* Every text of the prior entries and of the fetch is on a line of the
\* rendered document.
NothingDropped ==
    Rendered =>
        \A t \in EntryTexts(existing_todos) \cup CurrentContents(all_current_todos) :
            OnSomeLine(markdown_content, t)

\* C28 as stated: every text of the prior entries or of the fetch is on a line
\* of the rendered document, and after a cycle that read its prior document the
\* stored document holds every entry text the prior document held.
C28_AsStated ==
    /\ NothingDropped
    /\ (Rendered /\ ~read_failed) =>
          EntryTextsOf(file_at_read) \subseteq EntryTextsOf(files[date_str])

\* C28: every text of the prior entries or of the fetch is on a line of the
\* rendered document; after a cycle that read its prior document, none of whose
\* entry texts ends with the marker, the stored document holds every entry
\* text the prior document held, unless a write of the cycle failed after the
\* file was created and left it empty.
C28_NoEntryDropped ==
    /\ NothingDropped
    /\ (Rendered /\ ~read_failed /\ NoMarkerAtEnd(EntryTextsOf(file_at_read))) =>
          \/ EntryTextsOf(file_at_read) \subseteq EntryTextsOf(files[date_str])
          \/ "write" \in faults /\ files[date_str] = Some(<<>>)

C28_Witness ==
    /\ pc = "sleep" /\ ~read_failed /\ fetch_failed
    /\ EntryTextsOf(file_at_read) = {<<"a">>, <<"b">>}
    /\ files[date_str] = Some(markdown_content)
    /\ files[date_str] # file_at_read
    /\ EntryTextsOf(files[date_str]) = {<<"a">>, <<"b">>}

\* The lines of the completed section that show one text, annotated or not.
CompletedLinesFor(content, t) ==
    CountLines(content, PlainChecked(t)) + CountLines(content, Annotated(t))

\* C29: with fetches of distinct texts, every stored document shows each text
\* on at most one line of the completed section, annotated or not.
C29_OneCompletedLine ==
    \A d \in Dates :
        IsSome(files[d]) =>
            \A t \in LoopTexts : CompletedLinesFor(Unwrap(files[d]), t) <= 1

\* The lines of the completed section of a document, in order.
IsCheckedLine(line) == StartsWith(line, <<BoxDone, SP>>)
IsAnnotatedLine(line) == IsCheckedLine(line) /\ EndsWith(line, <<SP, Marker>>)
CheckedSection(content) == SelectSeq(SectionLines(content), IsCheckedLine)

\* C30: the completed section of the rendered document starts with the lines
\* of the completed records of the fetch, in fetch order, and after them no
\* annotated line comes before a line without the annotation.
C30_GroupedOrder ==
    Rendered =>
        LET ls == CheckedSection(markdown_content)
            fetched == SelectTodos(all_current_todos, TRUE)
        IN /\ Len(ls) >= Len(fetched)
           /\ \A i \in DOMAIN fetched : ls[i] = PlainChecked(fetched[i])
           /\ \A i \in DOMAIN ls : \A j \in DOMAIN ls :
                 (Len(fetched) < i /\ i < j /\ IsAnnotatedLine(ls[i]))
                     => IsAnnotatedLine(ls[j])

\* ------------------------------------------------------- order of the steps
\* The steps a cycle may take one after the other: read, fetch, render and
\* write, the publish step's read, its update and its post, the delay.
StepOrder ==
    \/ pc = "read" /\ pc' = "fetch"
    \/ pc = "fetch" /\ pc' = "write"
    \/ pc = "write" /\ pc' = "ps_read"
    \/ pc = "ps_read" /\ pc' \in {"ps_update", "ps_post", "sleep"}
    \/ pc = "ps_update" /\ pc' \in {"ps_post", "sleep"}
    \/ pc = "ps_post" /\ pc' = "sleep"
    \/ pc = "sleep" /\ pc' = "read" /\ iteration' = iteration + 1

\* What each step alone may touch: the fetched list is set by the fetch, the
\* file is written with the text rendered in the same step or by the publish
\* step's post, a chat call is made by the publish step only, and the cycle
\* count moves only after the publish step has returned.
StepEffects ==
    /\ (all_current_todos' # all_current_todos) => pc \in {"fetch", "sleep"}
    /\ (markdown_content' # markdown_content) => pc \in {"write", "sleep"}
    /\ (files' # files) => pc \in {"write", "ps_post"}
    /\ (pc = "write" /\ files' # files) =>
          files'[date_str] \in {Some(markdown_content'), Some(<<>>)}
    /\ (Len(calls') > Len(calls)) => pc \in {"ps_update", "ps_post"}
    /\ (iteration' # iteration) => pc = "sleep"

\* C31: the steps of a cycle occur in the order read, fetch, render, write,
\* publish; no chat call of a cycle is made before its fetch has returned and
\* its file has been written; and the next cycle starts only after the publish
\* step of this one has returned.
C31_StepsInOrder ==
    /\ [][StepOrder /\ StepEffects]_vars
    /\ [](pc \in {"fetch", "write", "ps_read"} => calls = <<>>)

\* The second cycle begins after a first cycle that fetched, wrote its file
\* and made a chat call.
C31_Witness ==
    /\ iteration = 2 /\ pc = "fetch"
    /\ IsSome(file_at_read)
    /\ UncheckedTexts(Unwrap(file_at_read)) = {<<"a">>}
    /\ IsSome(extract_slack_message_id(Unwrap(file_at_read)))

\* ------------------------------------------------------ the active section
IsUncheckedLine(line) == StartsWith(line, <<BoxOpen>>)

\* The unchecked lines of a document's sections, in order.
UncheckedSection(content) == SelectSeq(SectionLines(content), IsUncheckedLine)

HasNoActivePlaceholder(content) ==
    \E i \in DOMAIN SectionLines(content) : SectionLines(content)[i] = <<NoActive>>

\* C32: the unchecked lines of the rendered document are the lines of the
\* not-completed records of the fetch, one per record and in fetch order,
\* whatever the prior entries are; the placeholder of the active section is
\* there exactly when the fetch has no not-completed record.
C32_ActiveSectionIsFetch ==
    MergedOnce =>
        LET active == SelectTodos(FirstFetch, FALSE)
            shown == UncheckedSection(FirstRender)
        IN /\ Len(shown) = Len(active)
           /\ \A i \in DOMAIN active : shown[i] = Unchecked(active[i])
           /\ HasNoActivePlaceholder(FirstRender) <=> (active = <<>>)

\* The fetch holds one text twice as not completed, and the prior document an
\* active entry of another text.
C32_Witness ==
    /\ MergedOnce
    /\ PriorEntries = <<<<(<<"b">>), FALSE>>>>
    /\ FirstFetch = <<Todo(<<"a">>, FALSE), Todo(<<"a">>, FALSE)>>
    /\ UncheckedSection(FirstRender) = <<Unchecked(<<"a">>), Unchecked(<<"a">>)>>
    /\ ~HasNoActivePlaceholder(FirstRender)

\* ------------------------------------------------------ inject, line by line
\* inject has been applied to k_text, giving k_out.
Injected == k_stage \in {"added", "extracted", "done"}

\* The lines of out are those of text with line i replaced by the metadata
\* line of id.
ReplacedAt(text, out, i, id) ==
    /\ Len(Lines(out)) = Len(Lines(text))
    /\ \A j \in DOMAIN Lines(text) :
          Lines(out)[j] = (IF j = i THEN MetadataLine(id) ELSE Lines(text)[j])

\* The lines of out are the metadata line of id and then those of text.
Prepended(text, out, id) == Lines(out) = <<MetadataLine(id)>> \o Lines(text)

InjectsInPlace ==
    IF MetaIndexes(k_text) # {}
    THEN ReplacedAt(k_text, k_out, FirstMetadata(Lines(k_text), 1), k_id)
    ELSE Prepended(k_text, k_out, k_id)

\* C33 as stated: for every text and id, inject puts the metadata line of the
\* id in the place of the first metadata line, or in front when there is none,
\* and the other lines are the same lines in the same order.
C33_AsStated == Injected => InjectsInPlace

\* C33: the same for an id that holds no line break.
C33_InjectInPlace ==
    (Injected /\ \A i \in DOMAIN k_id : k_id[i] # NL) => InjectsInPlace

\* A replacement in the second of two lines, and a prepend before two lines.
C33_Witness ==
    /\ k_stage = "added"
    /\ k_id = Id22
    /\ k_text = <<"a", NL>> \o MetadataLine(Id11) \o <<NL>>
    /\ Lines(k_out) = <<(<<"a">>), MetadataLine(Id22)>>

\* ------------------------------------------- checkbox lines after the delimiter
\* The lines of the tail of a file.
TailLines(file) == Lines(TailText(file))

\* The checkbox line a person has written into the tail.
TailBox == <<BoxOpen, SP, "a">>

BoxInTail(file) == \E i \in DOMAIN TailLines(file) : TailLines(file)[i] = TailBox

\* The entries of the lines before the first delimiter line of a text.
SectionEntries(content) ==
    LET Entry(line) == ParseLine(Trim(line))
        RECURSIVE Go(_)
        Go(ls) == IF ls = <<>> THEN <<>> ELSE Entry(Head(ls)) \o Go(Tail(ls))
    IN Go(SectionLines(content))

\* The cycle has read a file with a checkbox line in its tail.
ReadWithTailBox ==
    /\ pc \in {"fetch", "write", "ps_read", "ps_update", "ps_post", "sleep"}
    /\ ~read_failed
    /\ BoxInTail(file_at_read)

\* The checkbox line of the tail was not parsed as an entry and no line of the
\* rendered sections comes from it.
TailBoxNotAnEntry ==
    ReadWithTailBox =>
        /\ existing_todos = SectionEntries(Unwrap(file_at_read))
        /\ Rendered =>
              /\ AnnotatedTexts(markdown_content) \subseteq
                     EntryTexts(SectionEntries(Unwrap(file_at_read)))
              /\ BoxInTail(Some(markdown_content))

\* C34: a checkbox line in the tail of the file a cycle starts from is not
\* parsed as an entry, produces no annotated line, and is in the tail of the
\* file when the cycle ends.
C34_TailBoxesStay ==
    /\ TailBoxNotAnEntry
    /\ (pc = "sleep" /\ BoxInTail(file_at_read)) => BoxInTail(files[date_str])

\* ------------------------------------------------ completed lines are kept
\* The texts the parser reads from the checked lines of a file.
CompletedIn(file) == IF IsSome(file) THEN ParsedCompleted(Unwrap(file)) ELSE {}

C36_BodyIsRendered ==
    pc \in {"ps_update", "ps_post", "sleep"} =>
        \A i \in DOMAIN calls : calls[i].body = Message(date_str, markdown_content)

\* ------------------------------------------------- the ids a post returns
\* C37: the id of every post that returned Ok is one validate_message_id
\* accepts.
C37_PostedIdIsValid ==
    \A i \in DOMAIN calls :
        (calls[i].op = "post" /\ calls[i].ok) =>
            validate_message_id(Unwrap(calls[i].id))

\* ------------------------------------------------- the slack crate alone
\* Every outcome of the HTTP exchange: the request or the decoding of the
\* answer fails (transport = FALSE, whatever the server meant to say), or the
\* answer decodes to a SlackApiResponse with any ok, error and ts.
ApiErrors == {"message_not_found", "channel_not_found"}

SlackResponses ==
    {[transport |-> t, ok |-> o, error |-> e, ts |-> s] :
        t \in BOOLEAN, o \in BOOLEAN,
        e \in {None} \cup {Some(x) : x \in ApiErrors},
        s \in {None} \cup {Some(id) : id \in ServerIds}}

InitSlack ==
    /\ LoopIdle /\ StartIdle /\ PostIdle /\ ParseIdle /\ IdsIdle /\ NoFiles /\ FeedIdle
    /\ MergeIdle /\ NotesIdle
    /\ s_resp \in SlackResponses
    /\ s_stage = "in"
    /\ s_post = NoResult /\ s_update = NoResult

SlackPostMessage ==
    /\ s_stage = "in"
    /\ s_post' = post_message(s_resp)
    /\ s_stage' = "posted"
    /\ UNCHANGED <<s_resp, s_update>>
    /\ UNCHANGED <<loop_vars, merge_vars, notes_vars, post_vars, ids_vars, start_vars, parse_vars>>

SlackUpdateMessage ==
    /\ s_stage = "in"
    /\ s_update' = update_message(s_resp)
    /\ s_stage' = "updated"
    /\ UNCHANGED <<s_resp, s_post>>
    /\ UNCHANGED <<loop_vars, merge_vars, notes_vars, post_vars, ids_vars, start_vars, parse_vars>>

NextSlack == SlackPostMessage \/ SlackUpdateMessage

SpecSlack == InitSlack /\ [][NextSlack]_vars

\* What the claim asks of one result for one outcome of the exchange.
ErrWhenNotOk(resp, result) ==
    /\ ~resp.transport => ~result.ok
    /\ (resp.transport /\ ~resp.ok) => (~result.ok /\ result.val = "ApiError")
    /\ result.ok => (resp.transport /\ resp.ok)

\* C38: post_message and update_message return Err(ApiError) for an answer
\* with ok = false and an error when the exchange or the decoding fails; they
\* return Ok only for an answer with ok = true, post_message then with the ts
\* of the answer when it has one.
C38_ErrUnlessOk ==
    /\ s_stage = "posted" =>
          /\ ErrWhenNotOk(s_resp, s_post)
          /\ (s_post.ok /\ IsSome(s_resp.ts)) => s_post.val = Unwrap(s_resp.ts)
    /\ s_stage = "updated" => ErrWhenNotOk(s_resp, s_update)

\* An answer with ok = false that carries a ts all the same: no id comes back.
C38_Witness ==
    /\ s_stage = "posted"
    /\ s_resp.transport /\ ~s_resp.ok /\ IsSome(s_resp.ts)
    /\ ~s_post.ok /\ s_post.val = "ApiError"

\* ------------------------------------------------- an edit during the cycle
\* A person has appended to the day's file since this cycle read it. The file
\* had no tail before (the program writes a delimiter line only for notes it
\* has read), so what the person appended begins with the delimiter line.
EditedDuringCycle == pc = "sleep" /\ human_edits > edits_at_read

\* C39: when a person has appended a delimiter line and a line of notes to the
\* day's file during a cycle, the file has them when the cycle ends: it holds
\* a delimiter line.
C39_EditSurvivesCycle ==
    EditedDuringCycle =>
        IsSome(files[date_str]) /\ HasDelimiter(Unwrap(files[date_str]))
============================================================================
